---- MODULE Spec2Model ----
(***************************************************************************)
(* The lexical pool builder of italky-api: app/routers/lang_pool.py        *)
(* (norm, extract_json_array, sanitize_items, supabase_upload,             *)
(* supabase_download, gemini_generate_json, build_lang), the part of       *)
(* app/routers/chat.py it calls, and build_lang of the script              *)
(* tools/build_lang_pools.py.                                              *)
(*                                                                         *)
(* A Python str is a sequence of code points; a code point is a TLA+       *)
(* string naming it ("a", "A", " ", ".", "e_acute" for U+00E9,             *)
(* "combining_acute" for U+0301).                                          *)
(***************************************************************************)
EXTENDS Integers, Sequences, FiniteSets, TLC

VARIABLES
  nx, ny, npc,   \* norm under test: its argument, its result, before/after
  store,         \* the bucket: language code -> the object {lang}.json
  build,         \* build id -> the locals of one build_lang call
  generator,     \* what gemini_generate_json reaches: chat.call_gemini or a test double
  tool,          \* the locals of build_lang of tools/build_lang_pools.py
  asset,         \* the file assets/lang/en.json that the tools read and write
  ADMIN_SECRET,  \* the configured secret of lang_pool.py ("" when unset)
  writer,        \* tools/build_lang_assets.py: a write_lang / read_existing call
  get,           \* one get_lang call: its position, language and response
  chat,          \* chat.py: the model cache, the catalog and the call_gemini calls
  pure           \* a pure function under test: its name, argument and result

vars ==
  <<nx, ny, npc, store, build, generator, tool, asset, ADMIN_SECRET, writer, get,
    chat, pure>>

----------------------------------------------------------------------------
(* Code points and the str methods the builder uses *)

Letters ==
  <<"a","b","c","d","e","f","g","h","i","j","k","l","m",
    "n","o","p","q","r","s","t","u","v","w","x","y","z">>

Capitals ==
  <<"A","B","C","D","E","F","G","H","I","J","K","L","M",
    "N","O","P","Q","R","S","T","U","V","W","X","Y","Z">>

InSeq(s, c) == \E i \in 1..Len(s) : s[i] = c

IndexOf(s, c) == CHOOSE i \in 1..Len(s) : s[i] = c

\* str.isspace(): what str.strip() trims and what \s matches in re
Whitespace == {" ", "\n"}

\* unicodedata.category(ch) == "Mn"
MarkNonspacing == {"combining_acute"}

\* the character class of the first re.sub in norm
NormPunct == {".", ",", "!", "?", ";", ":", "(", ")", "\"", "'"}

LowerChar(c) ==
  IF InSeq(Capitals, c) THEN Letters[IndexOf(Capitals, c)]
  ELSE IF c = "E_ACUTE" THEN "e_acute"
  ELSE c

UpperChar(c) ==
  IF InSeq(Letters, c) THEN Capitals[IndexOf(Letters, c)]
  ELSE IF c = "e_acute" THEN "E_ACUTE"
  ELSE c

Lower(s) == [i \in 1..Len(s) |-> LowerChar(s[i])]

Upper(s) == [i \in 1..Len(s) |-> UpperChar(s[i])]

RECURSIVE LStrip(_)
LStrip(s) ==
  IF s # <<>> /\ Head(s) \in Whitespace THEN LStrip(Tail(s)) ELSE s

RECURSIVE RStrip(_)
RStrip(s) ==
  IF s # <<>> /\ s[Len(s)] \in Whitespace
  THEN RStrip(SubSeq(s, 1, Len(s) - 1))
  ELSE s

Strip(s) == RStrip(LStrip(s))

StartsWith(s, p) == Len(s) >= Len(p) /\ SubSeq(s, 1, Len(p)) = p

\* unicodedata.normalize("NFD", ch) of one code point
NFDChar(c) ==
  IF c = "e_acute" THEN <<"e", "combining_acute">>
  ELSE IF c = "E_ACUTE" THEN <<"E", "combining_acute">>
  ELSE <<c>>

RECURSIVE NFD(_)
NFD(s) == IF s = <<>> THEN <<>> ELSE NFDChar(Head(s)) \o NFD(Tail(s))

IsNotMn(c) == c \notin MarkNonspacing

IsNotNormPunct(c) == c \notin NormPunct

\* re.sub(r"\s+", " ", s)
RECURSIVE CollapseWhitespace(_)
CollapseWhitespace(s) ==
  IF s = <<>> THEN <<>>
  ELSE IF Head(s) \in Whitespace
       THEN <<" ">> \o CollapseWhitespace(LStrip(Tail(s)))
       ELSE <<Head(s)>> \o CollapseWhitespace(Tail(s))

\* lang_pool.norm: strip, lower, NFD without Mn, punctuation out, whitespace
\* runs to one space (and nothing trimmed after the deletions)
norm(s) ==
  LET s1 == Lower(Strip(s))
      s2 == SelectSeq(NFD(s1), IsNotMn)
      s3 == SelectSeq(s2, IsNotNormPunct)
  IN  CollapseWhitespace(s3)

----------------------------------------------------------------------------
(* Strings of the builder *)

NOUN == <<"n","o","u","n">>

VERB == <<"v","e","r","b">>

ADJ == <<"a","d","j">>

ADV == <<"a","d","v">>

A1 == <<"A","1">>

A2 == <<"A","2">>

B1 == <<"B","1">>

B2 == <<"B","2">>

C1 == <<"C","1">>

EN == <<"e","n">>

FILL == <<"f","i","l","l">>

ADD == <<"a","d","d">>

LANGS == {EN, <<"d","e">>, <<"f","r">>, <<"e","s">>, <<"i","t">>}

POS_ALLOWED == {NOUN, VERB, ADJ, ADV}

LVL_ALLOWED == {A1, A2, B1, B2, C1}

\* the clamps of build_lang and its two loop limits
TargetMin == 50

TargetMax == 20000

ChunkMin == 20

ChunkMax == 200

MaxRoundsMin == 1

MaxRoundsMax == 200

NoProgressLimit == 5

ParseTries == 3

Min(a, b) == IF a < b THEN a ELSE b

Max(a, b) == IF a > b THEN a ELSE b

----------------------------------------------------------------------------
(* JSON values.  An element of an array is [t |-> "dict", v |-> f], f a     *)
(* function from some of the keys "w", "tr", "pos", "lvl" to strings, or   *)
(* [t |-> "other", v |-> <<>>] for a value that is no object.  A document  *)
(* is [lang, version, items], items being [t |-> "list", v |-> elements]   *)
(* or a value that is no list.                                             *)

Dict(f) == [t |-> "dict", v |-> f]

NonDict == [t |-> "other", v |-> <<>>]

\* dict.get(k, d)
Get(it, k, d) == IF k \in DOMAIN it.v THEN it.v[k] ELSE d

ToJson(items) == [t |-> "list", v |-> [i \in 1..Len(items) |-> Dict(items[i])]]

NoDoc == [exists |-> FALSE, lang |-> <<>>, version |-> 0, items |-> ToJson(<<>>)]

Doc(lang, version, items) ==
  [exists |-> TRUE, lang |-> lang, version |-> version, items |-> items]

----------------------------------------------------------------------------
(* extract_json_array.  A text is a sequence of tokens: prose (no bracket  *)
(* in it), the fence markers, the two brackets, and "elems", the text of   *)
(* the comma-separated elements of an array, written with double or with   *)
(* single quotes.                                                          *)

Tok(k) == [k |-> k, q |-> "", v |-> <<>>]

Elems(q, v) == [k |-> "elems", q |-> q, v |-> v]

IsNotFence(tok) == tok.k \notin {"fence_json", "fence"}

FirstIndex(t, k) ==
  IF \E i \in 1..Len(t) : t[i].k = k
  THEN CHOOSE i \in 1..Len(t) : t[i].k = k /\ \A j \in 1..(i - 1) : t[j].k # k
  ELSE -1

LastIndex(t, k) ==
  IF \E i \in 1..Len(t) : t[i].k = k
  THEN CHOOSE i \in 1..Len(t) : t[i].k = k /\ \A j \in (i + 1)..Len(t) : t[j].k # k
  ELSE -1

\* json.loads of a text that starts with "[" and ends with "]"
JsonLoads(t) ==
  IF Len(t) = 2
  THEN [ok |-> TRUE, v |-> <<>>]
  ELSE IF Len(t) = 3 /\ t[2].k = "elems" /\ t[2].q = "double"
       THEN [ok |-> TRUE, v |-> t[2].v]
       ELSE [ok |-> FALSE, v |-> <<>>]

\* t.replace("'", '"')
ReplaceQuotes(t) ==
  [i \in 1..Len(t) |-> IF t[i].k = "elems" THEN Elems("double", t[i].v) ELSE t[i]]

\* [ok |-> FALSE] stands for the ValueError / JSONDecodeError it raises
extract_json_array(text) ==
  LET t == SelectSeq(text, IsNotFence)
      a == FirstIndex(t, "lbracket")
      b == LastIndex(t, "rbracket")
  IN  IF a = -1 \/ b = -1 \/ b <= a
      THEN [ok |-> FALSE, v |-> <<>>]
      ELSE LET body == SubSeq(t, a, b)
               strict == JsonLoads(body)
           IN  IF strict.ok THEN strict ELSE JsonLoads(ReplaceQuotes(body))

----------------------------------------------------------------------------
(* sanitize_items *)

\* the coercion with the test for "a" before the test for "ad"
CoercePos_AFirst(pos) ==
  IF pos \in POS_ALLOWED THEN pos
  ELSE IF StartsWith(pos, <<"n">>) THEN NOUN
  ELSE IF StartsWith(pos, <<"v">>) THEN VERB
  ELSE IF StartsWith(pos, <<"a">>) /\ pos # ADV THEN ADJ
  ELSE IF StartsWith(pos, <<"a","d">>) THEN ADV
  ELSE pos

CoercePos(pos) ==
  IF pos \in POS_ALLOWED THEN pos
  ELSE IF StartsWith(pos, <<"n">>) THEN NOUN
  ELSE IF StartsWith(pos, <<"v">>) THEN VERB
  ELSE IF StartsWith(pos, <<"a","d">>) /\ pos # ADJ THEN ADV
  ELSE IF StartsWith(pos, <<"a">>) THEN ADJ
  ELSE pos

CoerceLvl(lvl) == IF lvl \in LVL_ALLOWED THEN lvl ELSE B1

RECURSIVE sanitize_items(_)
sanitize_items(arr) ==
  IF arr = <<>> THEN <<>>
  ELSE LET it == Head(arr)
           w == Strip(Get(it, "w", <<>>))
           tr == Strip(Get(it, "tr", <<>>))
           pos == CoercePos(Lower(Strip(Get(it, "pos", <<>>))))
           lvl == CoerceLvl(Upper(Strip(Get(it, "lvl", <<>>))))
           rest == sanitize_items(Tail(arr))
       IN  IF it.t # "dict" \/ w = <<>> \/ tr = <<>> \/ pos \notin POS_ALLOWED
           THEN rest
           ELSE <<[w |-> w, tr |-> tr, pos |-> pos, lvl |-> lvl]>> \o rest

----------------------------------------------------------------------------
(* build_lang: the two passes over records *)

OrDefault(s, d) == IF s = <<>> THEN d ELSE s

\* lines 195-216: the loaded items, trimmed and deduplicated
RECURSIVE CleanExisting(_, _, _)
CleanExisting(arr, seen, out) ==
  IF arr = <<>> THEN [items |-> out, seen |-> seen]
  ELSE LET it == Head(arr)
           w == Strip(Get(it, "w", <<>>))
           tr == Strip(Get(it, "tr", <<>>))
           k == norm(w)
           rec == [w |-> w, tr |-> tr,
                   pos |-> OrDefault(Lower(Strip(Get(it, "pos", NOUN))), NOUN),
                   lvl |-> OrDefault(Upper(Strip(Get(it, "lvl", B1))), B1)]
       IN  IF it.t # "dict" \/ w = <<>> \/ tr = <<>> \/ k = <<>> \/ k \in seen
           THEN CleanExisting(Tail(arr), seen, out)
           ELSE CleanExisting(Tail(arr), seen \cup {k}, Append(out, rec))

\* lines 191-193
ItemsOf(doc) == IF doc.items.t = "list" THEN doc.items.v ELSE <<>>

\* the merge without the test "k in seen"
RECURSIVE MergeBatch_NoSeen(_, _, _, _)
MergeBatch_NoSeen(batch, items, seen, added) ==
  IF batch = <<>> THEN [items |-> items, seen |-> seen, added |-> added]
  ELSE LET it == Head(batch)
           k == norm(it.w)
       IN  IF k = <<>>
           THEN MergeBatch_NoSeen(Tail(batch), items, seen, added)
           ELSE MergeBatch_NoSeen(Tail(batch), Append(items, it), seen \cup {k},
                                  added + 1)

\* the merge without "seen.add(k)"
RECURSIVE MergeBatch_NoAdd(_, _, _, _)
MergeBatch_NoAdd(batch, items, seen, added) ==
  IF batch = <<>> THEN [items |-> items, seen |-> seen, added |-> added]
  ELSE LET it == Head(batch)
           k == norm(it.w)
       IN  IF k = <<>> \/ k \in seen
           THEN MergeBatch_NoAdd(Tail(batch), items, seen, added)
           ELSE MergeBatch_NoAdd(Tail(batch), Append(items, it), seen, added + 1)

\* lines 261-268: the merge of one validated batch
RECURSIVE MergeBatch(_, _, _, _)
MergeBatch(batch, items, seen, added) ==
  IF batch = <<>> THEN [items |-> items, seen |-> seen, added |-> added]
  ELSE LET it == Head(batch)
           k == norm(it.w)
       IN  IF k = <<>> \/ k \in seen
           THEN MergeBatch(Tail(batch), items, seen, added)
           ELSE MergeBatch(Tail(batch), Append(items, it), seen \cup {k}, added + 1)

\* items[:target]
Clamp(items, target) == SubSeq(items, 1, Min(Len(items), target))

----------------------------------------------------------------------------
(* The state of one build_lang call: its locals, the await it is suspended *)
(* at (pc), and seven history fields: loaded (the list of lines 191-193),  *)
(* carried (the cleaned records of the loaded pool, as cleaned_existing is *)
(* before items, its alias, grows),                                        *)
(* uploaded_round (the last round whose upload returned, 0 if none),       *)
(* unparsed_valid (the round counted last as one without a batch got, as   *)
(* its last reply, a text with valid records),                             *)
(* all_added (every round so far added a record), exact and only_dups      *)
(* (what kind of replies the generator gave so far).                       *)

MaxReqRounds == 6

NumExtra == 1

Builds == {1, 2}

\* the build that runs when builds do not overlap
SoloBuilds == {1}

ReqLangs == {<<" ","E","N"," ">>, <<"x","x">>}

\* <<target, chunk, max_rounds>> of a request: values below the clamps
\* with a round limit of one and of five, and values inside the clamps with
\* a round limit above the no-progress limit
ReqSizes ==
  {<<10, 4, 1>>, <<10, 4, NoProgressLimit>>,
   <<TargetMin + 1, ChunkMin + 5, MaxReqRounds>>}

ReqVersions == {2}

ReqModes == {FILL, <<" ","A","d","d">>}

\* one-round requests without a mode and with a mode that is no mode
OtherModeRequests ==
  {[lang |-> <<" ","E","N"," ">>, target |-> 10, chunk |-> 4, max_rounds |-> 1,
    version |-> v, mode |-> m] :
     v \in ReqVersions, m \in {<<>>, <<"x","y","z">>}}

Requests ==
  {[lang |-> l, target |-> z[1], chunk |-> z[2], max_rounds |-> z[3],
    version |-> v, mode |-> m] :
     l \in ReqLangs, z \in ReqSizes, v \in ReqVersions, m \in ReqModes}
  \cup OtherModeRequests

NoReq ==
  [lang |-> <<>>, target |-> 0, chunk |-> 0, max_rounds |-> 0, version |-> 0,
   mode |-> <<>>]

\* a value of the environment variable ADMIN_SECRET
SECRET == <<"s","3">>

\* Optional[str]: None is <<>>, the string x is <<x>>
None == <<>>

Some(x) == <<x>>

\* x or ""
OrEmpty(x) == IF x = None THEN <<>> ELSE x[1]

\* the x-admin-secret header of a request: absent, empty, the secret, the
\* secret with blanks around it, another text
Headers ==
  {None, Some(<<>>), Some(SECRET), Some(<<" ","s","3"," ">>), Some(<<"s","4">>)}

\* the requests sent with each header: all of them with the secret, two
\* one-round requests with every other header
AdminRequests ==
  (Requests \X {Some(SECRET)})
  \cup ({[lang |-> l, target |-> 10, chunk |-> 4, max_rounds |-> 1,
          version |-> 2, mode |-> FILL] : l \in ReqLangs}
        \X (Headers \ {Some(SECRET)}))

\* a dependency that lets every request through once a secret is set
require_admin_Open(x_admin_secret) ==
  IF ADMIN_SECRET = <<>> THEN "admin_secret_not_set" ELSE "ok"

\* lines 37-42: "ok" for True, else the error raised
require_admin(x_admin_secret) ==
  IF ADMIN_SECRET = <<>> THEN "admin_secret_not_set"
  ELSE IF Strip(OrEmpty(x_admin_secret)) # ADMIN_SECRET THEN "unauthorized"
  ELSE "ok"

\* the status_code of the HTTPException raised (lines 39, 41, 144, 157,
\* 162, 182, 282; any other exception is answered with 500)
StatusCode(error) ==
  CASE error = "unauthorized" -> 401
    [] error = "unsupported_lang" -> 400
    [] OTHER -> 500

\* chat.py: the ids of the call_gemini calls
Calls == {1, 2}

\* one call_gemini call that has not started
IdleCall ==
  [pc |-> "idle", model_name |-> <<>>, status_code |-> 0, out |-> "",
   resolved |-> ""]

\* chat.py before any call: _selected_model_cache["name"] is "" (line 54)
IdleChat ==
  [name |-> <<>>, GEMINI_MODEL_CHAT |-> <<>>, catalog |-> <<>>,
   call |-> [c \in Calls |-> IdleCall]]

\* no pure function under test
IdlePure == [pc |-> "off", f |-> "", x |-> <<>>, y |-> <<>>]

\* tools/build_lang_assets.py: no write_lang or read_existing call yet
IdleWriter ==
  [pc |-> "idle", items |-> <<>>, written |-> 0, prev |-> <<>>, read |-> <<>>,
   crashed |-> FALSE]

\* no get_lang call yet
IdleGet ==
  [pc |-> "idle", lang |-> <<>>, status_code |-> 0, data |-> NoDoc, error |-> ""]

\* tools/build_lang_pools.py: the locals of its build_lang
IdleTool ==
  [pc |-> "idle", items |-> <<>>, seen |-> {}, round_no |-> 0, ask |-> 0,
   error |-> ""]

IdleBuild ==
  [pc |-> "idle", x_admin_secret |-> None,
   req |-> NoReq, lang |-> <<>>, target |-> 0, chunk |-> 0,
   max_rounds |-> 0, version |-> 0, mode |-> <<>>,
   loaded |-> <<>>, carried |-> <<>>, items |-> <<>>, seen |-> {}, rounds |-> 0,
   no_progress |-> 0, ask |-> 0, attempt |-> 0, added |-> 0,
   error |-> "", total |-> 0,
   uploaded_round |-> 0, unparsed_valid |-> FALSE, exact |-> TRUE, only_dups |-> TRUE, all_added |-> TRUE,
   events |-> <<>>, during |-> {}]

----------------------------------------------------------------------------
(* The generator's replies.  WordOf(i) is the i-th two-letter word; the     *)
(* candidate made for it varies its spelling and its pos and lvl texts     *)
(* with i, so that sanitize_items has something to do.                     *)

WordOf(i) == <<Letters[(i \div 26) + 1], Letters[(i % 26) + 1]>>

RawW(i) ==
  LET w == WordOf(i)
  IN  CASE i % 3 = 0 -> w
        [] i % 3 = 1 -> <<" ", UpperChar(w[1]), w[2]>>
        [] OTHER -> Append(w, "!")

RawPos(i) ==
  CASE i % 5 = 0 -> NOUN
    [] i % 5 = 1 -> <<"v","e","r","b","s">>
    [] i % 5 = 2 -> <<" ","A","d","j">>
    [] i % 5 = 3 -> <<"a","d","v","e","r","b">>
    [] OTHER -> <<"v">>

RawFresh(i) ==
  LET f == [w |-> RawW(i), tr |-> <<"t">> \o WordOf(i), pos |-> RawPos(i)]
  IN  CASE i % 4 = 0 -> Dict(f @@ [lvl |-> A1])
        [] i % 4 = 1 -> Dict(f @@ [lvl |-> <<"b","1">>])
        [] i % 4 = 2 -> Dict(f @@ [lvl |-> <<"z","z">>])
        [] OTHER -> Dict(f)

\* the n smallest ids from i on whose word is no key of the pool (the pools
\* of this model hold the words of the ids below their size, or fewer)
RECURSIVE FreshFrom(_, _, _)
FreshFrom(seen, i, n) ==
  IF n = 0 THEN <<>>
  ELSE IF WordOf(i) \in seen THEN FreshFrom(seen, i + 1, n)
       ELSE <<i>> \o FreshFrom(seen, i + 1, n - 1)

FreshCandidates(seen, n) ==
  LET ids == FreshFrom(seen, Cardinality(seen), n)
  IN  [j \in 1..n |-> RawFresh(ids[j])]

\* another spelling of a pooled word
DupOf(it) == Dict([w |-> Upper(it.w), tr |-> it.tr, pos |-> NOUN, lvl |-> A2])

DupCandidates(items) ==
  [j \in 1..Min(2, Len(items)) |-> DupOf(items[j])]

RejectedCandidates ==
  <<NonDict,
    Dict([w |-> <<"q","q">>, tr |-> <<" ">>, pos |-> NOUN, lvl |-> A1]),
    Dict([w |-> <<"q","r">>, tr |-> <<"t">>, pos |-> <<"x","y","z">>, lvl |-> A1]),
    Dict([tr |-> <<"t">>, pos |-> NOUN, lvl |-> A1])>>

EmptyKeyCandidate == Dict([w |-> <<".">>, tr |-> <<"t">>, pos |-> NOUN, lvl |-> A1])

Array(q, cands) == <<Tok("lbracket"), Elems(q, cands), Tok("rbracket")>>

MockKinds(s) ==
  {"fresh", "over", "few", "empty_key", "rejects",
   "empty_array", "no_array", "bracket_prose", "reversed"}
  \cup (IF s.items # <<>> THEN {"dups"} ELSE {})

ExactKinds == {"fresh"}

DupKinds == {"dups"}

MockText(kind, s) ==
  LET one == FreshCandidates(s.seen, 1)
  IN  CASE kind = "fresh" ->
             <<Tok("prose"), Tok("fence_json")>>
             \o Array("double", FreshCandidates(s.seen, s.ask))
             \o <<Tok("fence"), Tok("prose")>>
        [] kind = "over" ->
             Array("single", FreshCandidates(s.seen, s.ask + NumExtra))
        [] kind = "few" ->
             Array("double", one \o <<DupOf(sanitize_items(one)[1])>>
                              \o RejectedCandidates)
        [] kind = "dups" -> Array("double", DupCandidates(s.items))
        [] kind = "empty_key" -> Array("double", <<EmptyKeyCandidate>>)
        [] kind = "rejects" -> Array("double", RejectedCandidates)
        [] kind = "empty_array" -> <<Tok("lbracket"), Tok("rbracket")>>
        [] kind = "no_array" -> <<Tok("prose")>>
        [] kind = "bracket_prose" ->
             <<Tok("prose"), Tok("lbracket"), Tok("prose"), Tok("rbracket")>>
             \o Array("double", one)
        [] OTHER -> <<Tok("rbracket"), Tok("prose"), Tok("lbracket")>>

\* chat.call_gemini(messages, max_tokens) is called by gemini_generate_json
\* with the keywords system_instruction and max_tokens
CallGeminiParameters == {"messages", "max_tokens"}

GenerateJsonArguments == {"messages", "system_instruction", "max_tokens"}

GeminiGenerateJsonRaises == ~(GenerateJsonArguments \subseteq CallGeminiParameters)

----------------------------------------------------------------------------
(* build_lang between its awaits *)

\* lines 278 and 284
Payload(s) == Doc(s.lang, s.version, ToJson(Clamp(s.items, s.target)))

\* an exception leaves build_lang: its frame is gone (what stays here is the
\* request, the counters and the history fields)
Raise(s, error) ==
  [s EXCEPT !.pc = "failed", !.error = error,
            !.items = <<>>, !.seen = {}, !.ask = 0, !.attempt = 0, !.added = 0]

\* a response that reports the target as the total
Return_Target(s) ==
  [s EXCEPT !.pc = "done", !.total = s.target,
            !.items = <<>>, !.seen = {}, !.ask = 0, !.attempt = 0, !.added = 0]

\* line 287: the response; the frame is gone
Return(s) ==
  [s EXCEPT !.pc = "done", !.total = Min(Len(s.items), s.target),
            !.items = <<>>, !.seen = {}, !.ask = 0, !.attempt = 0, !.added = 0]

\* the end of the build without the test of line 281
AfterLoop_NoCheck(s) == [s EXCEPT !.pc = "await_final_upload"]

\* lines 281-285, up to the await of the last upload
AfterLoop(s) ==
  IF Len(s.items) = 0
  THEN Raise(s, "no_data")
  ELSE [s EXCEPT !.pc = "await_final_upload"]

\* a round that always asks for a whole chunk
EnterLoop_AskChunk(s) ==
  IF Len(s.items) < s.target /\ s.rounds < s.max_rounds
  THEN [s EXCEPT !.rounds = @ + 1, !.ask = s.chunk, !.attempt = 0,
                 !.pc = "await_generate"]
  ELSE AfterLoop(s)

\* a loop without the test "rounds < max_rounds"
EnterLoop_NoRoundLimit(s) ==
  IF Len(s.items) < s.target
  THEN LET need == s.target - Len(s.items)
       IN  [s EXCEPT !.rounds = @ + 1,
                     !.ask = IF need > s.chunk THEN s.chunk ELSE need,
                     !.attempt = 0,
                     !.pc = "await_generate"]
  ELSE AfterLoop(s)

\* lines 227-235: the loop test and a round up to its first generation call
EnterLoop(s) ==
  IF Len(s.items) < s.target /\ s.rounds < s.max_rounds
  THEN LET need == s.target - Len(s.items)
       IN  [s EXCEPT !.rounds = @ + 1,
                     !.ask = IF need > s.chunk THEN s.chunk ELSE need,
                     !.attempt = 0,
                     !.pc = "await_generate"]
  ELSE AfterLoop(s)

\* a round that goes on without its upload
ToUpload_Skip(s) == EnterLoop(s)

\* lines 277-279, up to the await of the round's upload
ToUpload(s) == [s EXCEPT !.pc = "await_upload"]

\* lines 255-259
NoBatch(s) ==
  LET s1 == [s EXCEPT !.no_progress = @ + 1, !.all_added = FALSE]
  IN  IF s1.no_progress >= NoProgressLimit THEN AfterLoop(s1) ELSE EnterLoop(s1)

\* the merge of a round without the no-progress limit
Merge_NoLimit(s, new_batch) ==
  LET m == MergeBatch(new_batch, s.items, s.seen, 0)
      s1 == [s EXCEPT !.items = m.items, !.seen = m.seen, !.added = m.added]
  IN  IF m.added = 0
      THEN ToUpload([s1 EXCEPT !.no_progress = @ + 1, !.all_added = FALSE])
      ELSE ToUpload([s1 EXCEPT !.no_progress = 0])

\* lines 261-279
Merge(s, new_batch) ==
  LET m == MergeBatch(new_batch, s.items, s.seen, 0)
      s1 == [s EXCEPT !.items = m.items, !.seen = m.seen, !.added = m.added]
  IN  IF m.added = 0
      THEN LET s2 == [s1 EXCEPT !.no_progress = @ + 1, !.all_added = FALSE]
           IN  IF s2.no_progress >= NoProgressLimit
               THEN AfterLoop(s2)
               ELSE ToUpload(s2)
      ELSE ToUpload([s1 EXCEPT !.no_progress = 0])

\* lines 240-246: one pass of the try block
ParseReply(raw_text) ==
  LET arr == extract_json_array(raw_text)
  IN  IF arr.ok THEN sanitize_items(arr.v) ELSE <<>>

\* lines 237-253: the reply to generation call number s.attempt of the round
\* (0 is the call of line 235); the reply to the call made in the last pass
\* of "for _ in range(3)" is not looked at
OnText(s, raw_text) ==
  IF s.attempt < ParseTries
  THEN LET new_batch == ParseReply(raw_text)
           s0 == [s EXCEPT !.unparsed_valid = FALSE]
       IN  IF new_batch # <<>> THEN Merge(s0, new_batch)
           ELSE [s0 EXCEPT !.attempt = @ + 1]
  ELSE NoBatch([s EXCEPT !.unparsed_valid = ParseReply(raw_text) # <<>>])

\* the download and the cleaning without the recomputation of add mode
OnDownload_NoAdd(s, status_code, object) ==
  LET existing == IF status_code # 200
                  THEN Doc(s.lang, 1, ToJson(<<>>))
                  ELSE object
      c == CleanExisting(ItemsOf(existing), {}, <<>>)
  IN  EnterLoop([s EXCEPT !.loaded = ItemsOf(existing),
                          !.carried = c.items,
                          !.items = c.items,
                          !.seen = c.seen,
                          !.rounds = 0,
                          !.no_progress = 0])

\* a build that keeps the version of the document it downloaded
OnDownload_KeepVersion(s, status_code, object) ==
  LET existing == IF status_code # 200
                  THEN Doc(s.lang, 1, ToJson(<<>>))
                  ELSE object
      c == CleanExisting(ItemsOf(existing), {}, <<>>)
  IN  EnterLoop([s EXCEPT !.loaded = ItemsOf(existing),
                          !.carried = c.items,
                          !.items = c.items,
                          !.seen = c.seen,
                          !.version = existing.version,
                          !.target = IF s.mode = ADD
                                     THEN Min(Len(c.items) + s.chunk, TargetMax)
                                     ELSE @,
                          !.rounds = 0,
                          !.no_progress = 0])

\* lines 190-225
OnDownload(s, status_code, object) ==
  LET existing == IF status_code # 200
                  THEN Doc(s.lang, 1, ToJson(<<>>))
                  ELSE object
      c == CleanExisting(ItemsOf(existing), {}, <<>>)
  IN  EnterLoop([s EXCEPT !.loaded = ItemsOf(existing),
                          !.carried = c.items,
                          !.items = c.items,
                          !.seen = c.seen,
                          !.target = IF s.mode = ADD
                                     THEN Min(Len(c.items) + s.chunk, TargetMax)
                                     ELSE @,
                          !.rounds = 0,
                          !.no_progress = 0])

\* the request taken without the clamps of lines 184-186
OnRequest_NoClamp(s, req) ==
  LET lang == Lower(Strip(req.lang))
  IN  IF lang \notin LANGS
      THEN Raise([s EXCEPT !.req = req, !.lang = lang], "unsupported_lang")
      ELSE [s EXCEPT !.req = req,
                     !.lang = lang,
                     !.target = req.target,
                     !.chunk = req.chunk,
                     !.max_rounds = req.max_rounds,
                     !.version = req.version,
                     !.mode = Lower(Strip(OrDefault(req.mode, FILL))),
                     !.pc = "await_download"]

\* lines 180-190
OnRequest(s, req) ==
  LET lang == Lower(Strip(req.lang))
  IN  IF lang \notin LANGS
      THEN Raise([s EXCEPT !.req = req, !.lang = lang], "unsupported_lang")
      ELSE [s EXCEPT !.req = req,
                     !.lang = lang,
                     !.target = Max(TargetMin, Min(TargetMax, req.target)),
                     !.chunk = Max(ChunkMin, Min(ChunkMax, req.chunk)),
                     !.max_rounds = Max(MaxRoundsMin, Min(MaxRoundsMax, req.max_rounds)),
                     !.version = req.version,
                     !.mode = Lower(Strip(OrDefault(req.mode, FILL))),
                     !.pc = "await_download"]

----------------------------------------------------------------------------
(* The bucket at the start *)

FreshRecord(i) == sanitize_items(<<RawFresh(i)>>)[1]

CleanPool(n) == [i \in 1..n |-> FreshRecord(i - 1)]

DirtyItems ==
  <<Dict([w |-> <<" ","A","a">>, tr |-> <<"x">>, pos |-> <<" ","N","o","u","n">>,
          lvl |-> <<"a","1">>]),
    Dict([w |-> <<"A","A">>, tr |-> <<"y">>]),
    NonDict,
    Dict([w |-> <<"c","d">>, tr |-> <<>>, pos |-> NOUN, lvl |-> A1]),
    Dict([w |-> <<".">>, tr |-> <<"z">>, pos |-> NOUN, lvl |-> A1]),
    Dict([w |-> <<"a","b">>, tr |-> <<"z">>, pos |-> <<"x","y","z">>,
          lvl |-> <<"z","9">>]),
    Dict([w |-> <<"a","c">>, tr |-> <<"q">>, pos |-> <<>>, lvl |-> <<" ">>])>>

InitialDocs ==
  {NoDoc,
   Doc(EN, 1, ToJson(CleanPool(2))),
   Doc(EN, 3, [t |-> "list", v |-> DirtyItems]),
   Doc(EN, 1, [t |-> "other", v |-> <<>>])}

\* what the GET of supabase_download can answer
DownloadStatuses(object) == IF object.exists THEN {200, 500} ELSE {404}

----------------------------------------------------------------------------
(* Actions: one per await of build_lang *)

Init ==
  /\ nx = <<>>
  /\ ny = <<>>
  /\ npc = "off"
  /\ \E d \in InitialDocs : store = [l \in LANGS |-> IF l = EN THEN d ELSE NoDoc]
  /\ build = [b \in Builds |-> IdleBuild]
  /\ generator \in {"call_gemini", "mock"}
  /\ tool = IdleTool
  /\ asset = NoDoc
  /\ ADMIN_SECRET \in {<<>>, SECRET}
  /\ writer = IdleWriter
  /\ get = IdleGet
  /\ chat = IdleChat
  /\ pure = IdlePure

\* lines 178-190 with the dependency of lines 37-42, for a request of the
\* set given
BuildRequestFrom(b, requests) ==
  /\ build[b].pc = "idle"
  /\ \E r \in requests :
       LET req == r[1]
           x_admin_secret == r[2]
           s == [build[b] EXCEPT !.x_admin_secret = x_admin_secret]
       IN  build' = [build EXCEPT ![b] =
                       IF require_admin(x_admin_secret) # "ok"
                       THEN Raise([s EXCEPT !.req = req],
                                  require_admin(x_admin_secret))
                       ELSE OnRequest(s, req)]
  /\ UNCHANGED <<chat, pure, ADMIN_SECRET, writer, get, nx, ny, npc, store, generator, tool, asset>>

BuildRequest(b) == BuildRequestFrom(b, AdminRequests)

DownloadReturns(b) ==
  /\ build[b].pc = "await_download"
  /\ \E status_code \in DownloadStatuses(store[build[b].lang]) :
       build' = [build EXCEPT ![b] = OnDownload(@, status_code, store[build[b].lang])]
  /\ UNCHANGED <<chat, pure, ADMIN_SECRET, writer, get, nx, ny, npc, store, generator, tool, asset>>

\* supabase_download raises: SUPABASE_URL is missing, or httpx does
DownloadRaises(b) ==
  /\ build[b].pc = "await_download"
  /\ build' = [build EXCEPT ![b] = Raise(@, "download")]
  /\ UNCHANGED <<chat, pure, ADMIN_SECRET, writer, get, nx, ny, npc, store, generator, tool, asset>>

GenerateReturns(b) ==
  /\ build[b].pc = "await_generate"
  /\ generator = "mock"
  /\ \E kind \in MockKinds(build[b]) :
       build' = [build EXCEPT ![b] =
                   OnText([@ EXCEPT !.exact = @ /\ kind \in ExactKinds,
                                    !.only_dups = @ /\ kind \in DupKinds],
                          MockText(kind, @))]
  /\ UNCHANGED <<chat, pure, ADMIN_SECRET, writer, get, nx, ny, npc, store, generator, tool, asset>>

GenerateRaises(b) ==
  /\ build[b].pc = "await_generate"
  /\ generator = "mock" \/ GeminiGenerateJsonRaises
  /\ build' = [build EXCEPT ![b] = Raise(@, "generation")]
  /\ UNCHANGED <<chat, pure, ADMIN_SECRET, writer, get, nx, ny, npc, store, generator, tool, asset>>

UploadReturns(b) ==
  /\ build[b].pc = "await_upload"
  /\ store' = [store EXCEPT ![build[b].lang] = Payload(build[b])]
  /\ build' = [build EXCEPT ![b] =
                 EnterLoop([@ EXCEPT !.uploaded_round = build[b].rounds])]
  /\ UNCHANGED <<chat, pure, ADMIN_SECRET, writer, get, nx, ny, npc, generator, tool, asset>>

\* a round whose failed upload is swallowed
UploadFails_Continue(b) ==
  /\ build[b].pc = "await_upload"
  /\ build' = [build EXCEPT ![b] = EnterLoop(@)]
  /\ UNCHANGED <<chat, pure, ADMIN_SECRET, writer, get, nx, ny, npc, store, generator, tool, asset>>

\* supabase_upload raises (lines 143-144, 156-157, or httpx does)
UploadFails(b) ==
  /\ build[b].pc = "await_upload"
  /\ build' = [build EXCEPT ![b] = Raise(@, "upload")]
  /\ UNCHANGED <<chat, pure, ADMIN_SECRET, writer, get, nx, ny, npc, store, generator, tool, asset>>

FinalUploadReturns(b) ==
  /\ build[b].pc = "await_final_upload"
  /\ store' = [store EXCEPT ![build[b].lang] = Payload(build[b])]
  /\ build' = [build EXCEPT ![b] = Return(@)]
  /\ UNCHANGED <<chat, pure, ADMIN_SECRET, writer, get, nx, ny, npc, generator, tool, asset>>

FinalUploadFails(b) ==
  /\ build[b].pc = "await_final_upload"
  /\ build' = [build EXCEPT ![b] = Raise(@, "upload")]
  /\ UNCHANGED <<chat, pure, ADMIN_SECRET, writer, get, nx, ny, npc, store, generator, tool, asset>>

Next ==
  \E b \in SoloBuilds :
    \/ BuildRequest(b)
    \/ DownloadReturns(b)
    \/ DownloadRaises(b)
    \/ GenerateReturns(b)
    \/ GenerateRaises(b)
    \/ UploadReturns(b)
    \/ UploadFails(b)
    \/ FinalUploadReturns(b)
    \/ FinalUploadFails(b)

Spec == Init /\ [][Next]_vars

\* the awaited call of build b completes (it returns or it raises) and the
\* event loop resumes build_lang
Resumes(b) ==
  \/ DownloadRaises(b)
  \/ DownloadReturns(b)
  \/ GenerateRaises(b)
  \/ GenerateReturns(b)
  \/ UploadFails(b)
  \/ UploadReturns(b)
  \/ FinalUploadFails(b)
  \/ FinalUploadReturns(b)

\* the service with its secret set, the generator answering, and a bucket
\* that holds no document or a clean one
FairInit ==
  /\ Init
  /\ generator = "mock"
  /\ ADMIN_SECRET = SECRET
  /\ store[EN] \in {NoDoc, Doc(EN, 1, ToJson(CleanPool(2)))}

\* the requests with a round limit of one and of five
FairRequests == {r \in AdminRequests : r[1].max_rounds <= NoProgressLimit}

FairBuildRequest(b) == BuildRequestFrom(b, FairRequests)

FairNext ==
  \E b \in SoloBuilds :
    \/ FairBuildRequest(b)
    \/ Resumes(b)

\* build_lang with every awaited call completing
FairSpec ==
  FairInit /\ [][FairNext]_vars /\ \A b \in SoloBuilds : WF_vars(Resumes(b))

----------------------------------------------------------------------------
(* tools/build_lang_pools.py: build_lang for one language.  It blocks in   *)
(* call_api; asset is the file OUT_DIR/en.json.                            *)

TARGET == 1000

CHUNK == 250

MAX_ROUNDS == 12

\* the most records a reply to the tool holds
ToolReplyMax == 2

\* clean_items: as sanitize_items, with the two "a" tests in the other order
CleanPos(pos) ==
  IF pos \in POS_ALLOWED THEN pos
  ELSE IF StartsWith(pos, <<"n">>) THEN NOUN
  ELSE IF StartsWith(pos, <<"v">>) THEN VERB
  ELSE IF StartsWith(pos, <<"a">>) /\ pos # ADV THEN ADJ
  ELSE IF StartsWith(pos, <<"a","d">>) THEN ADV
  ELSE pos

RECURSIVE clean_items(_)
clean_items(raw_items) ==
  IF raw_items = <<>> THEN <<>>
  ELSE LET it == Head(raw_items)
           w == Strip(Get(it, "w", <<>>))
           tr == Strip(Get(it, "tr", <<>>))
           pos == CleanPos(Lower(Strip(Get(it, "pos", <<>>))))
           lvl == CoerceLvl(Upper(Strip(Get(it, "lvl", <<>>))))
           rest == clean_items(Tail(raw_items))
       IN  IF it.t # "dict" \/ w = <<>> \/ tr = <<>> \/ pos \notin POS_ALLOWED
           THEN rest
           ELSE <<[w |-> w, tr |-> tr, pos |-> pos, lvl |-> lvl]>> \o rest

\* the loop over the items of the file; an item that is no object raises,
\* and "except Exception: pass" keeps what was read before it
RECURSIVE LoadExisting(_, _, _)
LoadExisting(arr, seen, out) ==
  IF arr = <<>> \/ Head(arr).t # "dict" THEN [items |-> out, seen |-> seen]
  ELSE LET it == Head(arr)
           k == norm(Get(it, "w", <<>>))
           rec == [w |-> Get(it, "w", <<>>), tr |-> Get(it, "tr", <<>>),
                   pos |-> Get(it, "pos", NOUN), lvl |-> Get(it, "lvl", B1)]
       IN  IF k # <<>> /\ k \notin seen
           THEN LoadExisting(Tail(arr), seen \cup {k}, Append(out, rec))
           ELSE LoadExisting(Tail(arr), seen, out)

\* the file written after the loop
ToolPayload(t) == Doc(EN, 1, ToJson(Clamp(t.items, TARGET)))

\* the loop test, then a round up to call_api or the lines after the loop
ToolRound(t) ==
  IF Len(t.items) < TARGET /\ t.round_no < MAX_ROUNDS
  THEN LET need == TARGET - Len(t.items)
       IN  [t EXCEPT !.round_no = @ + 1,
                     !.ask = IF need > CHUNK THEN CHUNK ELSE need,
                     !.pc = "call_api"]
  ELSE [t EXCEPT !.pc = "done"]

\* an exception leaves the script
ToolCrash(t, error) ==
  [t EXCEPT !.pc = "crashed", !.error = error, !.items = <<>>, !.seen = {}]

\* a round from the reply of call_api on
ToolOnText(t, txt) ==
  LET raw == extract_json_array(txt)
  IN  IF ~raw.ok THEN ToolCrash(t, "json")
      ELSE LET m == MergeBatch(clean_items(raw.v), t.items, t.seen, 0)
           IN  ToolRound([t EXCEPT !.items = m.items, !.seen = m.seen])

ToolReplies(t) ==
  {Array("double", FreshCandidates(t.seen, n)) : n \in 0..ToolReplyMax}
  \cup {Array("single", DupCandidates(t.items)), <<Tok("prose")>>}

ToolFiles == {NoDoc, Doc(EN, 1, ToJson(CleanPool(2)))}

ToolInit ==
  /\ nx = <<>>
  /\ ny = <<>>
  /\ npc = "off"
  /\ store = [l \in LANGS |-> NoDoc]
  /\ build = [b \in Builds |-> IdleBuild]
  /\ generator = "mock"
  /\ tool = IdleTool
  /\ asset \in ToolFiles
  /\ ADMIN_SECRET = SECRET
  /\ writer = IdleWriter
  /\ get = IdleGet
  /\ chat = IdleChat
  /\ pure = IdlePure

ToolStart ==
  /\ tool.pc = "idle"
  /\ LET c == LoadExisting(ItemsOf(asset), {}, <<>>)
     IN  tool' = ToolRound([tool EXCEPT !.items = c.items, !.seen = c.seen])
  /\ UNCHANGED <<chat, pure, ADMIN_SECRET, writer, get, nx, ny, npc, store, build, generator, asset>>

ToolApiReturns ==
  /\ tool.pc = "call_api"
  /\ \E txt \in ToolReplies(tool) :
       /\ tool' = ToolOnText(tool, txt)
       /\ asset' = IF tool'.pc = "done" THEN ToolPayload(tool') ELSE asset
  /\ UNCHANGED <<chat, pure, ADMIN_SECRET, writer, get, nx, ny, npc, store, build, generator>>

ToolApiRaises ==
  /\ tool.pc = "call_api"
  /\ tool' = ToolCrash(tool, "http")
  /\ UNCHANGED <<chat, pure, ADMIN_SECRET, writer, get, nx, ny, npc, store, build, generator, asset>>

ToolNext == ToolStart \/ ToolApiReturns \/ ToolApiRaises

ToolSpec == ToolInit /\ [][ToolNext]_vars

----------------------------------------------------------------------------
(* norm applied to every string of a small alphabet *)

MaxStrLen == 3

NormAlphabet == {"a", "A", "e_acute", "combining_acute", ".", " "}

RECURSIVE StringsUpTo(_, _)
StringsUpTo(A, n) ==
  IF n = 0 THEN {<<>>}
  ELSE LET shorter == StringsUpTo(A, n - 1)
       IN  shorter \cup {Append(s, c) : s \in shorter, c \in A}

NormInit ==
  /\ nx \in StringsUpTo(NormAlphabet, MaxStrLen)
  /\ ny = <<>>
  /\ npc = "input"
  /\ store = [l \in LANGS |-> NoDoc]
  /\ build = [b \in Builds |-> IdleBuild]
  /\ generator = "mock"
  /\ tool = IdleTool
  /\ asset = NoDoc
  /\ ADMIN_SECRET = SECRET
  /\ writer = IdleWriter
  /\ get = IdleGet
  /\ chat = IdleChat
  /\ pure = IdlePure

NormApply ==
  /\ npc = "input"
  /\ ny' = norm(nx)
  /\ npc' = "done"
  /\ UNCHANGED <<chat, pure, ADMIN_SECRET, writer, get, nx, store, build, generator, tool, asset>>

NormNext == NormApply

NormSpec == NormInit /\ [][NormNext]_vars

\* C1: norm is idempotent: normalising an already normalised string changes
\* nothing, for every input string.
C1_NormIdempotent == npc = "done" => norm(ny) = ny

----------------------------------------------------------------------------
(* Properties of build_lang *)

Uploading(b) == build[b].pc \in {"await_upload", "await_final_upload"}

\* the items of the document an upload of build b sends
Sent(b) == ToJson(Clamp(build[b].items, build[b].target)).v

\* the items of the persisted document of build b's language
Persisted(b) == ItemsOf(store[build[b].lang])

KeysOf(arr) == {norm(arr[i].v.w) : i \in 1..Len(arr)}

ValidItem(it) ==
  /\ it.t = "dict"
  /\ it.v.w # <<>>
  /\ it.v.tr # <<>>
  /\ it.v.pos \in POS_ALLOWED
  /\ it.v.lvl \in LVL_ALLOWED

CeilDiv(a, b) == (a + b - 1) \div b

\* C2: every document build_lang uploads, after a round or at the end, has
\* items with pairwise distinct, non-empty keys norm(w), and the records
\* carried over from the loaded pool come first, in their order.
C2_UploadedKeysDistinct ==
  \A b \in Builds :
    Uploading(b) =>
      LET arr == Sent(b)
          n == Min(Len(build[b].carried), Len(arr))
      IN  /\ Cardinality(KeysOf(arr)) = Len(arr)
          /\ <<>> \notin KeysOf(arr)
          /\ SubSeq(arr, 1, n) = SubSeq(ToJson(build[b].carried).v, 1, n)

\* an upload of a pool that holds carried-over records, with duplicates
\* among them when they were loaded, and records appended after them
C2_Witness ==
  \E b \in Builds :
    /\ Uploading(b)
    /\ Len(build[b].carried) >= 2
    /\ Len(build[b].loaded) > Len(build[b].carried)
    /\ Len(build[b].items) > Len(build[b].carried)

\* C3: every item of every document build_lang persists has non-empty w and
\* tr, pos in POS_ALLOWED and lvl in LVL_ALLOWED, the carried-over records
\* included.
C3_PersistedItemsValid ==
  \A b \in Builds :
    Uploading(b) => \A i \in 1..Len(Sent(b)) : ValidItem(Sent(b)[i])

\* C4: every executed round ends with an upload of the pool before the next
\* round starts or the loop exits, whatever the round's outcome.
C4_EveryRoundUploads ==
  \A b \in Builds :
    /\ build[b].pc = "await_generate" =>
         build[b].uploaded_round = build[b].rounds - 1
    /\ build[b].pc = "await_final_upload" =>
         build[b].uploaded_round = build[b].rounds

\* C5: when the generation call raises in round k >= 2 after rounds that
\* each added records and were uploaded, the build fails and the persisted
\* document holds exactly the carried-over records followed by the records
\* accepted in rounds 1..k-1, clamped to target.
C5_FailureKeepsRounds ==
  [][\A b \in Builds :
       (/\ build[b].pc = "await_generate"
        /\ build[b].rounds >= 2
        /\ build[b].all_added
        /\ build'[b].pc = "failed")
       => /\ build'[b].error = "generation"
          /\ ItemsOf(store'[build[b].lang])
               = ToJson(Clamp(build[b].items, build[b].target)).v
          /\ SubSeq(build[b].items, 1, Len(build[b].carried)) = build[b].carried
          /\ Len(build[b].items) > Len(build[b].carried)]_vars

\* a build that failed in its third round or later, by the generator, with
\* carried-over records and more records than those in the bucket
C5_Witness ==
  \E b \in Builds :
    /\ build[b].pc = "failed"
    /\ build[b].error = "generation"
    /\ generator = "mock"
    /\ build[b].rounds >= 3
    /\ build[b].all_added
    /\ build[b].carried # <<>>
    /\ Len(Persisted(b)) > Len(build[b].carried)

\* the values build_lang works with for a request: the clamped chunk and
\* round limit, and the clamped target or, in add mode, pool size plus chunk
EffChunk(req) == Max(ChunkMin, Min(ChunkMax, req.chunk))

EffMaxRounds(req) == Max(MaxRoundsMin, Min(MaxRoundsMax, req.max_rounds))

EffTarget(req, pool) ==
  IF Lower(Strip(req.mode)) = ADD
  THEN Min(Len(pool) + EffChunk(req), TargetMax)
  ELSE Max(TargetMin, Min(TargetMax, req.target))

\* build b loaded an empty pool and every reply so far held exactly the
\* asked number of valid records with new keys
ExactFromEmpty(b) == build[b].exact /\ build[b].carried = <<>>

\* C7 as stated: from an empty pool, with a generator that returns exactly
\* the asked number of new valid records, a build requested with target T,
\* chunk C and maxRounds R >= ceil(T/C) (in fill mode) asks
\* min(C, T - |pool|) in each round, runs ceil(T/C) rounds, returns total T
\* and persists T items.
C7_ConvergesToRequestedTarget ==
  \A b \in Builds :
    LET req == build[b].req
    IN  (/\ build[b].pc # "idle"
         /\ build[b].mode = FILL
         /\ ExactFromEmpty(b)
         /\ req.max_rounds >= CeilDiv(req.target, req.chunk))
        => /\ build[b].pc = "await_generate" =>
                build[b].ask = Min(req.chunk, req.target - Len(build[b].items))
           /\ build[b].pc = "done" =>
                /\ build[b].rounds = CeilDiv(req.target, req.chunk)
                /\ build[b].total = req.target
                /\ Len(Persisted(b)) = req.target

\* C7, amended: the same with T, C and R the values build_lang works with
\* (target clamped to 50..20000 or, in add mode, chunk; chunk clamped to
\* 20..200; maxRounds clamped to 1..200), when every upload succeeds.
C7_ConvergesToEffectiveTarget ==
  \A b \in Builds :
    LET req == build[b].req
        T == EffTarget(req, <<>>)
        C == EffChunk(req)
        R == EffMaxRounds(req)
    IN  (ExactFromEmpty(b) /\ R >= CeilDiv(T, C))
        => /\ build[b].pc = "await_generate" =>
                /\ Len(build[b].items) = (build[b].rounds - 1) * C
                /\ build[b].ask = Min(C, T - Len(build[b].items))
           /\ build[b].pc = "done" =>
                /\ build[b].rounds = CeilDiv(T, C)
                /\ build[b].total = T
                /\ Len(Persisted(b)) = T
                /\ build[b].error = ""

\* the spec's instance (10, 4, 5) done: three rounds and fifty records
C7_Witness ==
  \E b \in Builds :
    /\ build[b].pc = "done"
    /\ ExactFromEmpty(b)
    /\ build[b].req.target = 10
    /\ build[b].req.chunk = 4
    /\ build[b].req.max_rounds = 5
    /\ build[b].mode = FILL
    /\ build[b].rounds = 3
    /\ build[b].total = TargetMin

C9_NoDataRightAfterFirstRound ==
  \A b \in Builds :
    /\ (build[b].pc = "failed" /\ build[b].error = "no_data") =>
         build[b].rounds = 1
    /\ (build[b].pc = "await_generate" /\ build[b].rounds = 2
        /\ build[b].uploaded_round = 0) =>
         build[b].items # <<>>

\* C9, amended: the no-data failure is raised exactly when the round loop
\* ends with an empty pool: the loaded pool was empty and each of the
\* min(maxRounds, 5) rounds executed added nothing; a build that gets past
\* the loop otherwise has a non-empty pool.
C9_NoDataWhenLoopEndsEmpty ==
  \A b \in Builds :
    /\ (build[b].pc = "failed" /\ build[b].error = "no_data") =>
         /\ build[b].carried = <<>>
         /\ build[b].rounds = Min(EffMaxRounds(build[b].req), 5)
         /\ build[b].no_progress = build[b].rounds
    /\ build[b].pc = "await_final_upload" => build[b].items # <<>>
    /\ build[b].pc = "done" => build[b].total >= 1

\* the no-data failure after five rounds of a build allowed more than five
C9_Witness ==
  \E b \in Builds :
    /\ build[b].pc = "failed"
    /\ build[b].error = "no_data"
    /\ build[b].rounds = 5
    /\ build[b].max_rounds > 5

\* C10: when the loop has stopped below target, it stopped because
\* maxRounds rounds were executed or 5 consecutive rounds added nothing;
\* the pool is then non-empty, and when the last upload succeeds
\* build_lang returns a response (no error) whose total is below target
\* and is the number of items of the persisted document.
C10_LimitStopIsSuccess ==
  [][\A b \in Builds :
       (build[b].pc = "await_final_upload"
        /\ Len(build[b].items) < build[b].target)
       => /\ \/ build[b].rounds = build[b].max_rounds
             \/ build[b].no_progress >= 5
          /\ build[b].items # <<>>
          /\ build'[b].pc = "done" =>
               /\ build'[b].error = ""
               /\ build'[b].total = Len(build[b].items)
               /\ build'[b].total < build'[b].target
               /\ Len(ItemsOf(store'[build[b].lang])) = build'[b].total]_vars

\* a response after partial progress and then five rounds without any
C10_Witness ==
  \E b \in Builds :
    /\ build[b].pc = "done"
    /\ build[b].no_progress = 5
    /\ build[b].total > Len(build[b].carried)
    /\ build[b].total < build[b].target
    /\ Len(Persisted(b)) = build[b].total

\* C6 for build_lang of tools/build_lang_pools.py: whenever the script
\* blocks in a generation call, every record it holds from the completed
\* rounds is in the file it persists to.
C6_AcceptedArePersisted ==
  tool.pc = "call_api" =>
    \A i \in 1..Len(tool.items) :
      \E j \in 1..Len(ItemsOf(asset)) : ItemsOf(asset)[j] = Dict(tool.items[i])

\* C6 for build_lang of app/routers/lang_pool.py: at each await of a
\* generation call or an upload, the records accepted in the completed
\* rounds are in the persisted document, at their places, up to target.
C6_BuildLangAcceptedArePersisted ==
  \A b \in Builds :
    build[b].pc \in {"await_generate", "await_upload", "await_final_upload"} =>
      LET in_flight == IF build[b].pc = "await_upload" THEN build[b].added ELSE 0
          n == Min(Len(build[b].items) - in_flight, build[b].target)
      IN  \A i \in (Len(build[b].carried) + 1)..n :
            /\ i <= Len(Persisted(b))
            /\ Persisted(b)[i] = Dict(build[b].items[i])

\* C11: a round makes at most 3 re-requests, and it is counted as a round
\* without progress only when every reply of the round, the first one and
\* each retry's, was extracted and validated and yielded nothing.
C11_ZeroProgressAfterAllParsed ==
  \A b \in Builds :
    /\ build[b].attempt <= ParseTries
    /\ ~build[b].unparsed_valid

\* build b is past its download
Loaded(b) ==
  build[b].pc \in {"await_generate", "await_upload", "await_final_upload", "done"}

\* C12: in mode "add" the target build_lang works with is
\* min(n + chunk, 20000), n the size of the loaded pool (as cleaned) and
\* chunk the clamped chunk, and no document the build uploads or leaves
\* persisted has more than n + chunk items; in any other mode (fill, none,
\* an unknown one) the target is the clamped target of the request.
C12_AddModeTarget ==
  \A b \in Builds :
    Loaded(b) =>
      LET req == build[b].req
          n == Len(build[b].carried)
          add == Lower(Strip(req.mode)) = ADD
      IN  /\ add => build[b].target = Min(n + EffChunk(req), TargetMax)
          /\ ~add => build[b].target = Max(TargetMin, Min(TargetMax, req.target))
          /\ (add /\ Uploading(b)) => Len(Sent(b)) <= n + EffChunk(req)
          /\ (add /\ build[b].pc = "done") =>
               /\ Len(Persisted(b)) <= n + EffChunk(req)
               /\ build[b].total <= n + EffChunk(req)

\* an add build on a pool of two records that was offered more than a
\* chunk of new records and persisted the two and one chunk
C12_Witness ==
  \E b \in Builds :
    /\ build[b].pc = "done"
    /\ build[b].mode = ADD
    /\ ~build[b].exact
    /\ Len(build[b].carried) = 2
    /\ build[b].total = 2 + EffChunk(build[b].req)
    /\ Len(Persisted(b)) = build[b].total

\* C13: an error raised by a generation call does not fail the build: a
\* build fails only by a rejected request, a storage error or the no-data
\* error.
C13_GenerationErrorAbsorbed ==
  \A b \in Builds :
    build[b].pc = "failed" =>
      build[b].error \in {"unauthorized", "admin_secret_not_set",
                          "unsupported_lang", "download", "upload", "no_data"}

\* C14: a step out of the await of an upload either stores the payload and
\* goes on without an upload error, or leaves the bucket as it was and fails the build with the
\* upload error and no total; and a failed build takes no further step.
C14_FailedUploadAborts ==
  [][\A b \in Builds :
       /\ (build[b].pc \in {"await_upload", "await_final_upload"}
             /\ build'[b] # build[b]) =>
            \/ /\ store' = [store EXCEPT ![build[b].lang] = Payload(build[b])]
               /\ build'[b].error # "upload"
            \/ /\ store' = store
               /\ build'[b].pc = "failed"
               /\ build'[b].error = "upload"
               /\ build'[b].total = 0
               /\ build'[b].rounds = build[b].rounds
       /\ build[b].pc = "failed" => (build'[b] = build[b] /\ store' = store)]_vars

C14_Witness ==
  \E b \in Builds :
    /\ build[b].pc = "failed"
    /\ build[b].error = "upload"
    /\ build[b].rounds = 2
    /\ build[b].uploaded_round = 1
    /\ store[build[b].lang].exists

\* C16: every document a build uploads carries the trimmed, lower-cased
\* request lang and the request's version, whatever version the document it
\* downloaded had; so does the document in the bucket when the build is done.
C16_UploadedLangAndVersion ==
  \A b \in SoloBuilds :
    LET req == build[b].req
    IN  /\ Uploading(b) =>
             /\ Payload(build[b]).lang = Lower(Strip(req.lang))
             /\ Payload(build[b]).version = req.version
        /\ (build[b].uploaded_round > 0 \/ build[b].pc = "done") =>
             /\ store[Lower(Strip(req.lang))].exists
             /\ store[Lower(Strip(req.lang))].lang = Lower(Strip(req.lang))
             /\ store[Lower(Strip(req.lang))].version = req.version

C16_Witness ==
  \E b \in SoloBuilds :
    /\ build[b].pc = "done"
    /\ build[b].req.lang = <<" ", "E", "N", " ">>
    /\ build[b].loaded = DirtyItems
    /\ store[EN].lang = EN
    /\ store[EN].version = 2

----------------------------------------------------------------------------
(* tools/build_lang_assets.py: write_lang and read_existing on the file    *)
(* OUT_DIR/en.json (asset).  Path.write_text opens the file for writing,   *)
(* which empties it, and then writes the text; the text is taken in        *)
(* pieces: the head up to "items": [, one piece per item, and the end.  A  *)
(* file whose text stops early has items.t = "cut".                        *)

MaxSaveItems == 3

\* line 137
SavePayload(items) == Doc(EN, 1, ToJson(items))

\* the file after the first k pieces of the text of payload
FileAfter(payload, k) ==
  IF k >= Len(payload.items.v) + 2 THEN payload
  ELSE IF k = 0 THEN Doc(<<>>, 0, [t |-> "cut", v |-> <<>>])
  ELSE Doc(payload.lang, payload.version,
           [t |-> "cut", v |-> SubSeq(payload.items.v, 1, k - 1)])

\* lines 121-131
RECURSIVE ReadClean(_, _)
ReadClean(arr, cleaned) ==
  IF arr = <<>> THEN cleaned
  ELSE LET it == Head(arr)
       IN  IF it.t = "dict" /\ Get(it, "w", <<>>) # <<>> /\ Get(it, "tr", <<>>) # <<>>
           THEN ReadClean(Tail(arr),
                  Append(cleaned,
                         [w |-> Strip(it.v.w), tr |-> Strip(it.v.tr),
                          pos |-> Lower(Strip(Get(it, "pos", NOUN))),
                          lvl |-> Upper(Strip(Get(it, "lvl", B1)))]))
           ELSE ReadClean(Tail(arr), cleaned)

\* lines 113-134: json.loads raises on a text that stops early
read_existing(file) ==
  IF ~file.exists THEN <<>>
  ELSE IF file.items.t = "cut" THEN <<>>
  ELSE IF file.items.t = "list" THEN ReadClean(file.items.v, <<>>)
  ELSE <<>>

SaveFiles ==
  {NoDoc, SavePayload(CleanPool(1)), SavePayload(CleanPool(2)),
   Doc(EN, 1, [t |-> "list", v |-> DirtyItems])}

SaveInit ==
  /\ nx = <<>>
  /\ ny = <<>>
  /\ npc = "off"
  /\ store = [l \in LANGS |-> NoDoc]
  /\ build = [b \in Builds |-> IdleBuild]
  /\ generator = "mock"
  /\ tool = IdleTool
  /\ asset \in SaveFiles
  /\ ADMIN_SECRET = SECRET
  /\ writer = IdleWriter
  /\ get = IdleGet
  /\ chat = IdleChat
  /\ pure = IdlePure

\* write_lang is called (lines 179, 191): the file is opened and emptied
WriteLangOpens ==
  /\ writer.pc = "idle"
  /\ \E n \in 1..MaxSaveItems :
       writer' = [writer EXCEPT !.pc = "writing",
                                !.items = CleanPool(n),
                                !.written = 0,
                                !.prev = read_existing(asset)]
  /\ asset' = FileAfter(SavePayload(writer'.items), 0)
  /\ UNCHANGED <<chat, pure, ADMIN_SECRET, get, nx, ny, npc, store, build, generator, tool>>

\* one more piece of the text reaches the file; after the last one
\* write_lang returns
WriteLangWrites ==
  /\ writer.pc = "writing"
  /\ LET k == writer.written + 1
         payload == SavePayload(writer.items)
     IN  /\ asset' = FileAfter(payload, k)
         /\ writer' = [writer EXCEPT !.written = k,
                                     !.pc = IF asset' = payload THEN "saved"
                                            ELSE "writing"]
  /\ UNCHANGED <<chat, pure, ADMIN_SECRET, get, nx, ny, npc, store, build, generator, tool>>

\* the process ends inside write_text (killed, or the disk is full)
WriteLangInterrupted ==
  /\ writer.pc = "writing"
  /\ writer' = [writer EXCEPT !.pc = "crashed", !.crashed = TRUE]
  /\ UNCHANGED <<chat, pure, ADMIN_SECRET, get, nx, ny, npc, store, build, generator, tool, asset>>

\* the next run's read_existing (line 147)
ReadExisting ==
  /\ writer.pc \in {"saved", "crashed"}
  /\ writer' = [writer EXCEPT !.pc = "loaded", !.read = read_existing(asset)]
  /\ UNCHANGED <<chat, pure, ADMIN_SECRET, get, nx, ny, npc, store, build, generator, tool, asset>>

SaveNext ==
  \/ WriteLangOpens
  \/ WriteLangWrites
  \/ WriteLangInterrupted
  \/ ReadExisting

SaveSpec == SaveInit /\ [][SaveNext]_vars

\* C15: a load after a save, interrupted or not, returns the items of the
\* previous complete document or those of the new one: never a cut document
\* and never an empty pool in place of an existing one.
C15_LoadSeesOldOrNew ==
  writer.pc = "loaded" => writer.read \in {writer.prev, writer.items}

----------------------------------------------------------------------------
(* The admin check of POST /admin/lang/build *)

\* the request of a build in state s is one that must be rejected
Rejected(s) ==
  /\ s.pc # "idle"
  /\ \/ ADMIN_SECRET = <<>>
     \/ Strip(OrEmpty(s.x_admin_secret)) # ADMIN_SECRET
     \/ Lower(Strip(s.req.lang)) \notin LANGS

\* C19: a request whose x-admin-secret header is absent or is not the
\* configured secret fails with status 401, one for a language outside the
\* table with status 400, and with no ADMIN_SECRET set every request fails;
\* a rejected request has downloaded nothing, run no round and uploaded
\* nothing, and no step taken with it changes the bucket.
C19_RejectedBeforeAnyEffect ==
  [][\A b \in SoloBuilds :
       LET s == build'[b]
       IN  Rejected(s) =>
             /\ s.pc = "failed"
             /\ s.loaded = <<>>
             /\ s.rounds = 0
             /\ s.uploaded_round = 0
             /\ s.total = 0
             /\ store' = store
             /\ (ADMIN_SECRET # <<>>
                   /\ Strip(OrEmpty(s.x_admin_secret)) # ADMIN_SECRET) =>
                  StatusCode(s.error) = 401
             /\ (ADMIN_SECRET # <<>>
                   /\ Strip(OrEmpty(s.x_admin_secret)) = ADMIN_SECRET) =>
                  StatusCode(s.error) = 400]_vars

C19_Witness ==
  \E b \in SoloBuilds :
    /\ build[b].pc = "failed"
    /\ build[b].error = "unauthorized"
    /\ build[b].x_admin_secret = None
    /\ build[b].req.lang = <<" ", "E", "N", " ">>
    /\ store[EN].exists

----------------------------------------------------------------------------
(* GET /assets/lang/{lang}.json: get_lang, next to uploads of builds *)

MaxGetItems == 2

\* the path parameter of the request
GetLangs == {<<" ","E","N"," ">>, <<"d","e">>, <<"x","x">>}

\* documents that builds upload for language l (lines 278 and 284)
GetUploads(l) ==
  {Doc(l, v, ToJson(CleanPool(n))) : v \in {1, 2}, n \in 0..MaxGetItems}

\* line 167
EmptyPool(lang) == Doc(lang, 1, ToJson(<<>>))

GetInit ==
  /\ nx = <<>>
  /\ ny = <<>>
  /\ npc = "off"
  /\ store = [l \in LANGS |-> NoDoc]
  /\ build = [b \in Builds |-> IdleBuild]
  /\ generator = "mock"
  /\ tool = IdleTool
  /\ asset = NoDoc
  /\ ADMIN_SECRET = SECRET
  /\ writer = IdleWriter
  /\ get = IdleGet
  /\ chat = IdleChat
  /\ pure = IdlePure

\* lines 140-157: an upload of some build is answered with 200
SupabaseUpload ==
  /\ \E l \in {EN, <<"d","e">>} :
       \E payload \in GetUploads(l) : store' = [store EXCEPT ![l] = payload]
  /\ UNCHANGED <<chat, pure, ADMIN_SECRET, writer, get, nx, ny, npc, build, generator, tool, asset>>

\* lines 291-294
GetRequest ==
  /\ get.pc \in {"idle", "done", "failed"}
  /\ \E l \in GetLangs :
       LET lang == Lower(Strip(l))
       IN  get' = IF lang \notin LANGS
                  THEN [IdleGet EXCEPT !.pc = "failed", !.lang = lang,
                                       !.error = "unsupported_lang"]
                  ELSE [IdleGet EXCEPT !.pc = "await_download", !.lang = lang]
  /\ UNCHANGED <<chat, pure, ADMIN_SECRET, writer, nx, ny, npc, store, build, generator, tool, asset>>

\* lines 164-168 and 294-296
GetDownloadReturns ==
  /\ get.pc = "await_download"
  /\ \E status_code \in DownloadStatuses(store[get.lang]) :
       get' = [get EXCEPT !.pc = "done",
                          !.status_code = status_code,
                          !.data = IF status_code # 200 THEN EmptyPool(get.lang)
                                   ELSE store[get.lang]]
  /\ UNCHANGED <<chat, pure, ADMIN_SECRET, writer, nx, ny, npc, store, build, generator, tool, asset>>

\* lines 161-165: SUPABASE_URL is missing, or httpx raises
GetDownloadRaises ==
  /\ get.pc = "await_download"
  /\ get' = [get EXCEPT !.pc = "failed", !.error = "download"]
  /\ UNCHANGED <<chat, pure, ADMIN_SECRET, writer, nx, ny, npc, store, build, generator, tool, asset>>

GetNext ==
  \/ SupabaseUpload
  \/ GetRequest
  \/ GetDownloadReturns
  \/ GetDownloadRaises

GetSpec == GetInit /\ [][GetNext]_vars

\* C20: the document get_lang answers with is the one uploaded last for the
\* language, and the empty-pool document only if none was uploaded: a read
\* of an existing document that is not answered with 200 is not reported as
\* an empty pool.
C20_GetReturnsLastUpload ==
  [][(get.pc = "await_download" /\ get'.pc = "done") =>
       get'.data = IF store[get.lang].exists THEN store[get.lang]
                   ELSE EmptyPool(get.lang)]_vars

----------------------------------------------------------------------------
(* Two build_lang calls at once.  The event loop runs one coroutine at a   *)
(* time and switches at the awaits, so a step is one call's code between   *)
(* two awaits, as in Spec.  History kept per call: events, the replies it  *)
(* got (by kind) and "up" for each upload answered with 200; during, the   *)
(* calls that were running at some moment of its run.                      *)

ConcRounds == 2

\* the requests of call b: call 1 is for en, call 2 for en or for de (the
\* two calls are alike, so the other two pairings add nothing)
ConcRequests(b) ==
  {[lang |-> l, target |-> 10, chunk |-> 4, max_rounds |-> ConcRounds,
    version |-> 2, mode |-> FILL] :
     l \in IF b = 1 THEN {<<" ","E","N"," ">>}
           ELSE {<<" ","E","N"," ">>, <<"d","e">>}}

ConcKinds == {"fresh", "few"}

ConcStore0 ==
  [l \in LANGS |-> IF l = EN THEN Doc(EN, 1, ToJson(CleanPool(2))) ELSE NoDoc]

Active(b) == build[b].pc \notin {"idle", "done", "failed"}

ConcInit ==
  /\ nx = <<>>
  /\ ny = <<>>
  /\ npc = "off"
  /\ store = ConcStore0
  /\ build = [b \in Builds |-> IdleBuild]
  /\ generator = "mock"
  /\ tool = IdleTool
  /\ asset = NoDoc
  /\ ADMIN_SECRET = SECRET
  /\ writer = IdleWriter
  /\ get = IdleGet
  /\ chat = IdleChat
  /\ pure = IdlePure

\* lines 178-190 of call b, its header the secret
ConcBuildRequest(b) ==
  /\ build[b].pc = "idle"
  /\ require_admin(Some(SECRET)) = "ok"
  /\ \E req \in ConcRequests(b) :
       LET running == {c \in Builds \ {b} : Active(c)}
       IN  build' = [c \in Builds |->
                       IF c = b
                       THEN OnRequest([build[b] EXCEPT
                                         !.x_admin_secret = Some(SECRET),
                                         !.during = running], req)
                       ELSE IF c \in running
                       THEN [build[c] EXCEPT !.during = @ \cup {b}]
                       ELSE build[c]]
  /\ UNCHANGED <<chat, pure, ADMIN_SECRET, writer, get, nx, ny, npc, store, generator, tool, asset>>

\* lines 235-279 of call b: a reply arrives
ConcGenerateReturns(b) ==
  /\ build[b].pc = "await_generate"
  /\ \E kind \in ConcKinds :
       build' = [build EXCEPT ![b] =
                   OnText([@ EXCEPT !.events = Append(@, kind)],
                          MockText(kind, @))]
  /\ UNCHANGED <<chat, pure, ADMIN_SECRET, writer, get, nx, ny, npc, store, generator, tool, asset>>

\* a round's upload that goes to en.json whatever the language
ConcUploadReturns_OneKey(b) ==
  /\ build[b].pc = "await_upload"
  /\ store' = [store EXCEPT ![EN] = Payload(build[b])]
  /\ build' = [build EXCEPT ![b] =
                 EnterLoop([@ EXCEPT !.uploaded_round = build[b].rounds,
                                     !.events = Append(@, "up")])]
  /\ UNCHANGED <<chat, pure, ADMIN_SECRET, writer, get, nx, ny, npc, generator, tool, asset>>

\* lines 277-279 of call b: the round's upload is answered with 200
ConcUploadReturns(b) ==
  /\ build[b].pc = "await_upload"
  /\ store' = [store EXCEPT ![build[b].lang] = Payload(build[b])]
  /\ build' = [build EXCEPT ![b] =
                 EnterLoop([@ EXCEPT !.uploaded_round = build[b].rounds,
                                     !.events = Append(@, "up")])]
  /\ UNCHANGED <<chat, pure, ADMIN_SECRET, writer, get, nx, ny, npc, generator, tool, asset>>

\* lines 284-287 of call b
ConcFinalUploadReturns(b) ==
  /\ build[b].pc = "await_final_upload"
  /\ store' = [store EXCEPT ![build[b].lang] = Payload(build[b])]
  /\ build' = [build EXCEPT ![b] = Return([@ EXCEPT !.events = Append(@, "up")])]
  /\ UNCHANGED <<chat, pure, ADMIN_SECRET, writer, get, nx, ny, npc, generator, tool, asset>>

ConcNext ==
  \E b \in Builds :
    \/ ConcBuildRequest(b)
    \/ DownloadReturns(b)
    \/ DownloadRaises(b)
    \/ ConcGenerateReturns(b)
    \/ GenerateRaises(b)
    \/ ConcUploadReturns(b)
    \/ UploadFails(b)
    \/ ConcFinalUploadReturns(b)
    \/ FinalUploadFails(b)

ConcSpec == ConcInit /\ [][ConcNext]_vars

\* build_lang run by itself from state s over the events given: the
\* document its language has in the bucket afterwards
RECURSIVE Replay(_, _, _)
Replay(s, events, persisted) ==
  IF events = <<>> THEN persisted
  ELSE IF s.pc = "await_generate"
  THEN Replay(OnText(s, MockText(Head(events), s)), Tail(events), persisted)
  ELSE IF s.pc = "await_upload"
  THEN Replay(EnterLoop(s), Tail(events), Payload(s))
  ELSE IF s.pc = "await_final_upload"
  THEN Replay(Return(s), Tail(events), Payload(s))
  ELSE persisted

\* the document call b leaves when it runs alone from the bucket doc0 with
\* the replies and the upload answers it got
RunAlone(b, doc0) ==
  LET req == build[b].req
      s0 == OnRequest(IdleBuild, req)
  IN  IF build[b].pc = "await_download" \/ build[b].error = "download"
      THEN doc0
      ELSE Replay(OnDownload(s0, 200, Doc(s0.lang, 1, [t |-> "list", v |-> build[b].loaded])),
                  build[b].events, doc0)

Alone(b) ==
  /\ build[b].pc # "idle"
  /\ \A c \in Builds \ {b} : build[c].lang # build[b].lang

\* C17: while no other call has the language of call b, the document of
\* that language in the bucket is the one call b leaves when run alone with
\* the same replies, what b downloaded is that language's document (or
\* nothing, for an answer other than 200), and the documents of languages no
\* call has are untouched.
C17_DistinctLanguagesIndependent ==
  /\ \A b \in Builds :
       Alone(b) =>
         /\ store[build[b].lang] = RunAlone(b, ConcStore0[build[b].lang])
         /\ Loaded(b) =>
              build[b].loaded \in {ItemsOf(ConcStore0[build[b].lang]), <<>>}
  /\ \A l \in LANGS :
       (\A b \in Builds : build[b].lang # l) => store[l] = ConcStore0[l]

C17_Witness ==
  /\ build[1].pc = "done"
  /\ build[2].pc = "done"
  /\ build[1].lang # build[2].lang
  /\ 2 \in build[1].during
  /\ build[1].rounds = ConcRounds
  /\ build[2].rounds = ConcRounds
  /\ build[1].events # build[2].events
  /\ store[build[1].lang] = RunAlone(1, ConcStore0[build[1].lang])
  /\ store[build[2].lang] = RunAlone(2, ConcStore0[build[2].lang])
  /\ Len(ItemsOf(store[build[1].lang])) > Len(build[1].loaded)
  /\ Len(ItemsOf(store[build[2].lang])) > Len(build[2].loaded)

----------------------------------------------------------------------------
(* Two calls for one language *)

Range(arr) == {arr[i] : i \in 1..Len(arr)}

Ended(b) == build[b].pc \in {"done", "failed"}

\* the records call b uploaded: its uploads only grow, so those of its last
Uploaded(b) ==
  IF build[b].uploaded_round > 0 \/ build[b].pc = "done"
  THEN ItemsOf(RunAlone(b, NoDoc))
  ELSE <<>>

\* both calls have ended, for one language, and a record that b uploaded is
\* not in the document the bucket has
LostUpdate(b, c) ==
  /\ b # c
  /\ Ended(b) /\ Ended(c)
  /\ build[b].lang = build[c].lang
  /\ build[b].lang \in LANGS
  /\ Range(Uploaded(b)) \ Range(ItemsOf(store[build[b].lang])) # {}

\* C18: a lost update is reached only by calls for one language that ran
\* at the same time.
C18_LostUpdateOnlyWhenOverlapping ==
  \A b, c \in Builds : LostUpdate(b, c) => c \in build[b].during

\* two calls for one language that ran at the same time, each with a
\* download answered with 200, reach a lost update
C18_OverlapLosesUpdate ==
  \E b, c \in Builds :
    /\ LostUpdate(b, c)
    /\ c \in build[b].during
    /\ build[b].loaded # <<>>
    /\ build[c].loaded # <<>>

----------------------------------------------------------------------------
(* chat.py: pick_best_model and call_gemini.  A model name is a sequence   *)
(* of pieces, "models/" being one piece and blanks being code points; a    *)
(* catalog entry is [name, methods], methods = <<>> standing for a missing *)
(* or empty supportedGenerationMethods.  GEMINI_API_KEY is set and         *)
(* requests is importable.                                                 *)

MaxCatalog == 2

FLASH == <<"gemini-1.5-flash">>

\* lines 129, 132, 134: the hard-coded default
DEFAULT_MODEL == FLASH

\* lines 45-53
PREFERRED_MODELS ==
  SelectSeq(<<Strip(chat.GEMINI_MODEL_CHAT), FLASH, <<"gemini-1.5-flash-latest">>,
              <<"gemini-2.0-flash">>, <<"gemini-1.5-pro">>,
              <<"gemini-1.5-pro-latest">> >>,
            LAMBDA m : m # <<>>)

IsNotModelsPrefix(piece) == piece # "models/"

\* line 73: nm.replace("models/", "")
ModelKey(nm) == SelectSeq(nm, IsNotModelsPrefix)

\* lines 69-73: the dict by_name as the sequence of its (key, value) pairs
\* in insertion order; a key set again keeps its place and takes the value
RECURSIVE ByName(_, _)
ByName(models, by_name) ==
  IF models = <<>> THEN by_name
  ELSE LET m == Head(models)
           nm == Strip(m.name)
           k == ModelKey(nm)
           at == {i \in 1..Len(by_name) : by_name[i].k = k}
       IN  IF nm = <<>> THEN ByName(Tail(models), by_name)
           ELSE IF at = {}
           THEN ByName(Tail(models), Append(by_name, [k |-> k, m |-> m]))
           ELSE ByName(Tail(models),
                       [i \in 1..Len(by_name) |->
                          IF i \in at THEN [k |-> k, m |-> m] ELSE by_name[i]])

\* lines 77-78 and 82-83: not meth or "generateContent" in meth
MethOk(meth) == meth = <<>> \/ InSeq(meth, "generateContent")

\* lines 66-86
pick_best_model(models) ==
  IF models = <<>> THEN <<>>
  ELSE LET by_name == ByName(models, <<>>)
           wanted == SelectSeq(PREFERRED_MODELS,
                       LAMBDA want :
                         \E i \in 1..Len(by_name) :
                           by_name[i].k = want /\ MethOk(by_name[i].m.methods))
           usable == SelectSeq(by_name, LAMBDA e : MethOk(e.m.methods))
       IN  IF wanted # <<>> THEN wanted[1]
           ELSE IF usable # <<>> THEN usable[1].k
           ELSE IF by_name # <<>> THEN by_name[1].k
           ELSE <<>>

CatalogEntry(name, methods) == [name |-> name, methods |-> methods]

\* entries of the answer of GET /v1beta/models
CatalogModels ==
  {CatalogEntry(<<"models/", "gemini-1.5-flash">>, <<"generateContent", "countTokens">>),
   CatalogEntry(<<"models/", "gemini-1.5-pro">>, <<"generateContent">>),
   CatalogEntry(<<"models/", "gemini-1.5-pro-latest">>, <<"embedContent">>),
   CatalogEntry(<<" ", "models/", "gemini-x">>, <<"generateContent">>),
   CatalogEntry(<<"models/", "embedding-001">>, <<"embedContent">>),
   CatalogEntry(<<"models/", "aqa">>, <<>>),
   CatalogEntry(<<" ">>, <<"generateContent">>)}

RECURSIVE SeqsUpTo(_, _)
SeqsUpTo(S, n) ==
  IF n = 0 THEN {<<>>}
  ELSE LET shorter == SeqsUpTo(S, n - 1)
       IN  shorter \cup {Append(q, e) : q \in shorter, e \in S}

\* catalogs: no name twice
Catalogs ==
  {q \in SeqsUpTo(CatalogModels, MaxCatalog) :
     \A i, j \in 1..Len(q) : i # j => q[i].name # q[j].name}

PickInit ==
  /\ nx = <<>>
  /\ ny = <<>>
  /\ npc = "off"
  /\ store = [l \in LANGS |-> NoDoc]
  /\ build = [b \in Builds |-> IdleBuild]
  /\ generator = "call_gemini"
  /\ tool = IdleTool
  /\ asset = NoDoc
  /\ ADMIN_SECRET = SECRET
  /\ writer = IdleWriter
  /\ get = IdleGet
  /\ \E catalog \in Catalogs :
       \E env \in {<<>>, <<" ", "gemini-x", " ">>} :
         chat = [IdleChat EXCEPT !.catalog = catalog, !.GEMINI_MODEL_CHAT = env]
  /\ pure = IdlePure

ChatUnchanged ==
  UNCHANGED <<nx, ny, npc, store, build, generator, tool, asset, ADMIN_SECRET,
              writer, get, pure>>

\* lines 134-153: the request is on its way with the cached name
ToPost(ch, c) ==
  [ch EXCEPT !.call[c].model_name = IF ch.name # <<>> THEN ch.name ELSE DEFAULT_MODEL,
             !.call[c].pc = "await_post"]

\* lines 119-127, or 119-153 when a name is cached
CallStart(c) ==
  /\ chat.call[c].pc \in {"idle", "done", "failed"}
  /\ LET ch == [chat EXCEPT !.call[c] = IdleCall]
     IN  chat' = IF ch.name = <<>>
                 THEN [ch EXCEPT !.call[c].pc = "await_list"]
                 ELSE ToPost(ch, c)
  /\ ChatUnchanged

\* a call that does not store what it picked
ListReturns_NoStore(c) ==
  /\ chat.call[c].pc = "await_list"
  /\ chat' = [chat EXCEPT !.call[c].model_name = chat.name,
                          !.call[c].resolved = "listed",
                          !.call[c].pc = "await_post"]
  /\ ChatUnchanged

\* lines 127-130, then 134-153: list_gemini_models returned the catalog
ListReturns(c) ==
  /\ chat.call[c].pc = "await_list"
  /\ LET picked == pick_best_model(chat.catalog)
     IN  chat' = ToPost([chat EXCEPT !.name = IF picked # <<>> THEN picked
                                             ELSE DEFAULT_MODEL,
                                     !.call[c].resolved = "listed"], c)
  /\ ChatUnchanged

\* lines 131-132, then 134-153: list_gemini_models raised
ListRaises(c) ==
  /\ chat.call[c].pc = "await_list"
  /\ chat' = ToPost([chat EXCEPT !.name = IF PREFERRED_MODELS # <<>>
                                          THEN PREFERRED_MODELS[1]
                                          ELSE DEFAULT_MODEL,
                                 !.call[c].resolved = "raised"], c)
  /\ ChatUnchanged

\* a call that leaves the cache alone when the model is not found
PostReturns_KeepName(c) ==
  /\ chat.call[c].pc = "await_post"
  /\ \E out \in {"text", "", "__MODEL_NOT_FOUND__"} :
       chat' = IF out = "__MODEL_NOT_FOUND__"
               THEN [chat EXCEPT !.call[c].status_code = 404,
                                 !.call[c].out = "",
                                 !.call[c].pc = "done"]
               ELSE [chat EXCEPT !.call[c].status_code = 200,
                                 !.call[c].out = out,
                                 !.call[c].pc = "done"]
  /\ ChatUnchanged

\* lines 139-157: the answer is 200 with a text or without one, or 404
PostReturns(c) ==
  /\ chat.call[c].pc = "await_post"
  /\ \E out \in {"text", "", "__MODEL_NOT_FOUND__"} :
       chat' = IF out = "__MODEL_NOT_FOUND__"
               THEN [chat EXCEPT !.name = <<>>,
                                 !.call[c].status_code = 404,
                                 !.call[c].out = "",
                                 !.call[c].pc = "done"]
               ELSE [chat EXCEPT !.call[c].status_code = 200,
                                 !.call[c].out = out,
                                 !.call[c].pc = "done"]
  /\ ChatUnchanged

\* line 142: raise_for_status raises, or requests.post does
PostRaises(c) ==
  /\ chat.call[c].pc = "await_post"
  /\ chat' = [chat EXCEPT !.call[c].pc = "failed"]
  /\ ChatUnchanged

SoloCalls == {1}

PickNext ==
  \E c \in SoloCalls :
    \/ CallStart(c)
    \/ ListReturns(c)
    \/ ListRaises(c)
    \/ PostReturns(c)
    \/ PostRaises(c)

PickSpec == PickInit /\ [][PickNext]_vars

\* the catalogued names (as pick_best_model keys them) whose entry does not
\* lack generateContent
CapableNames ==
  LET by_name == ByName(chat.catalog, <<>>)
  IN  {by_name[i].k : i \in {j \in 1..Len(by_name) : MethOk(by_name[j].m.methods)}}

\* C21: the name a call resolves from the catalog is the first preferred
\* model that is catalogued and capable; with none, some catalogued capable
\* model; with no capable model in the catalog, the default
\* gemini-1.5-flash.
C21_ResolvesCapableModel ==
  \A c \in Calls :
    (chat.call[c].pc = "await_post" /\ chat.call[c].resolved = "listed") =>
      LET wanted == SelectSeq(PREFERRED_MODELS, LAMBDA want : want \in CapableNames)
          picked == chat.call[c].model_name
      IN  IF wanted # <<>> THEN picked = wanted[1]
          ELSE IF CapableNames # {} THEN picked \in CapableNames
          ELSE picked = DEFAULT_MODEL

\* C22: a call queries the catalog only when the cached name is empty, and
\* then it does; a call that finds a name cached posts with that name
\* without a query and leaves the cache as it is; an answer 404 empties the
\* cache, so that the next call queries again; nothing else changes the
\* cache but the end of a query.
C22_CacheReusedUntilNotFound ==
  [][\A c \in SoloCalls :
       LET old == chat.call[c]
           new == chat'.call[c]
           starts == old.pc \in {"idle", "done", "failed"} /\ new # old
       IN  /\ (new.pc = "await_list" /\ old.pc # "await_list") =>
                (starts /\ chat.name = <<>>)
           /\ (starts /\ chat.name = <<>>) => new.pc = "await_list"
           /\ (starts /\ chat.name # <<>>) =>
                /\ new.pc = "await_post"
                /\ new.model_name = chat.name
                /\ new.resolved = ""
                /\ chat'.name = chat.name
           /\ (old.pc = "await_post" /\ new.pc = "done") =>
                chat'.name = IF new.status_code = 404 THEN <<>> ELSE chat.name
           /\ (chat'.name # chat.name) =>
                \/ old.pc = "await_list" /\ new.resolved # "" /\ chat'.name # <<>>
                \/ old.pc = "await_post" /\ new.status_code = 404]_vars

\* a call that posted with the name an earlier call resolved, without a
\* query of its own, was answered 404, and the cache is empty
C22_Witness ==
  \E c \in SoloCalls :
    /\ chat.call[c].pc = "done"
    /\ chat.call[c].resolved = ""
    /\ chat.call[c].status_code = 404
    /\ chat.call[c].model_name = <<"gemini-x">>
    /\ chat.name = <<>>

----------------------------------------------------------------------------
(* Two call_gemini calls at once: the event loop switches between them at  *)
(* the two awaits of asyncio.to_thread (lines 127 and 153).                *)

ChatCatalogs ==
  {<<>>,
   <<CatalogEntry(<<"models/", "gemini-1.5-pro">>, <<"generateContent">>)>>,
   <<CatalogEntry(<<"models/", "embedding-001">>, <<"embedContent">>),
     CatalogEntry(<<"models/", "gemini-x">>, <<"generateContent">>)>>}

ChatInit ==
  /\ nx = <<>>
  /\ ny = <<>>
  /\ npc = "off"
  /\ store = [l \in LANGS |-> NoDoc]
  /\ build = [b \in Builds |-> IdleBuild]
  /\ generator = "call_gemini"
  /\ tool = IdleTool
  /\ asset = NoDoc
  /\ ADMIN_SECRET = SECRET
  /\ writer = IdleWriter
  /\ get = IdleGet
  /\ \E catalog \in ChatCatalogs : chat = [IdleChat EXCEPT !.catalog = catalog]
  /\ pure = IdlePure

ChatNext ==
  \E c \in Calls :
    \/ CallStart(c)
    \/ ListReturns(c)
    \/ ListRaises(c)
    \/ PostReturns(c)
    \/ PostRaises(c)

ChatSpec == ChatInit /\ [][ChatNext]_vars

\* the names a resolution can leave in the cache
ResolvableNames ==
  {DEFAULT_MODEL, PREFERRED_MODELS[1]}
  \cup {ModelKey(Strip(chat.catalog[i].name)) : i \in 1..Len(chat.catalog)}

----------------------------------------------------------------------------
(* The pure functions on their own: sanitize_items (lang_pool.py) and      *)
(* clean_items (tools/build_lang_pools.py) applied to arrays of candidates *)

\* a candidate: each field is None (no such key) or Some(text)
CandidateOf(w, tr, pos, lvl) ==
  LET all == [w |-> w, tr |-> tr, pos |-> pos, lvl |-> lvl]
      present == {k \in {"w", "tr", "pos", "lvl"} : all[k] # None}
  IN  Dict([k \in present |-> all[k][1]])

CandidateW == {None, Some(<<" ">>), Some(<<" ", "w", " ">>)}

CandidateTr == {None, Some(<<>>), Some(<<"t", " ">>)}

CandidatePos ==
  {None, Some(<<>>), Some(NOUN), Some(<<" ", "V", "e", "r", "b", "s">>),
   Some(<<"N">>), Some(ADJ), Some(ADV), Some(<<"a">>), Some(<<"a", "d">>),
   Some(<<"a", "d", "v", "e", "r", "b">>),
   Some(<<"A", "d", "j", "e", "c", "t", "i", "v", "e">>),
   Some(<<"a", "r", "t">>), Some(<<"x", "n">>)}

CandidateLvl ==
  {None, Some(<<"b", "1">>), Some(<<" ", "c", "1", " ">>), Some(A2),
   Some(<<"z", "9">>)}

Candidates ==
  {CandidateOf(w, tr, pos, lvl) :
     w \in CandidateW, tr \in CandidateTr, pos \in CandidatePos,
     lvl \in CandidateLvl}
  \cup {NonDict}

\* arrays of one candidate, and some of two
CandidateArrays ==
  {<<c>> : c \in Candidates}
  \cup {<<c, d>> :
          c \in {NonDict, CandidateOf(Some(<<"w">>), Some(<<"t">>), Some(<<"v">>), None)},
          d \in {CandidateOf(Some(<<"w">>), Some(<<"t">>), Some(NOUN), Some(A1)),
                 CandidateOf(Some(<<"u">>), Some(<<>>), Some(NOUN), Some(A1))}}

\* texts of valid JSON arrays: no element, one element, two elements
ArrayTexts ==
  {<<Tok("lbracket"), Tok("rbracket")>>}
  \cup {Array("double", c) : c \in {<<EmptyKeyCandidate>>, <<NonDict, EmptyKeyCandidate>>}}

\* free-form text in front of the array and behind it: nothing, prose, a
\* fence marker, prose with a bracketed remark, prose with one bracket
TextBefore ==
  {<<>>, <<Tok("prose")>>, <<Tok("prose"), Tok("fence_json")>>, <<Tok("fence")>>,
   <<Tok("prose"), Tok("lbracket"), Tok("prose"), Tok("rbracket"), Tok("prose")>>,
   <<Tok("prose"), Tok("rbracket"), Tok("prose")>>}

TextAfter ==
  {<<>>, <<Tok("prose")>>, <<Tok("fence"), Tok("prose")>>,
   <<Tok("prose"), Tok("lbracket"), Tok("prose"), Tok("rbracket")>>,
   <<Tok("prose"), Tok("lbracket"), Tok("prose")>>}

\* the argument pairs of the two applications: the bare text A, and A
\* embedded in free-form text
ExtractInputs ==
  {[bare |-> a, text |-> p \o a \o q] : a \in ArrayTexts, p \in TextBefore, q \in TextAfter}

\* rounds of one build that are followed from its request
MaxPureRounds == 2

\* integer request values below, at, inside and above the three ranges, in
\* both modes, with the size of the (clean) pool in the bucket
SizeInputs ==
  {[req |-> [lang |-> <<" ","E","N"," ">>, target |-> t, chunk |-> c,
             max_rounds |-> r, version |-> 2, mode |-> m],
    n |-> n] :
     t \in {0, TargetMin, TargetMin + 1, TargetMax + 1},
     c \in {-1, ChunkMin, ChunkMin + 5, ChunkMax + 1},
     r \in {0, MaxRoundsMin, MaxReqRounds, MaxRoundsMax + 1},
     m \in ReqModes,
     n \in {0, 2, TargetMin - 1}}

PureInit ==
  /\ nx = <<>>
  /\ ny = <<>>
  /\ npc = "off"
  /\ store = [l \in LANGS |-> NoDoc]
  /\ build = [b \in Builds |-> IdleBuild]
  /\ generator = "mock"
  /\ tool = IdleTool
  /\ asset = NoDoc
  /\ ADMIN_SECRET = SECRET
  /\ writer = IdleWriter
  /\ get = IdleGet
  /\ chat = IdleChat
  /\ \/ \E f \in {"sanitize_items", "clean_items"} :
          \E x \in CandidateArrays :
            pure = [pc |-> "input", f |-> f, x |-> x, y |-> <<>>]
     \/ \E x \in ExtractInputs :
          pure = [pc |-> "input", f |-> "extract_json_array", x |-> x, y |-> <<>>]
     \/ \E x \in SizeInputs :
          pure = [pc |-> "input", f |-> "build_lang", x |-> x, y |-> <<>>]

PureUnchanged ==
  UNCHANGED <<nx, ny, npc, store, build, generator, tool, asset, ADMIN_SECRET,
              writer, get, chat>>

\* lang_pool.py lines 83-114
SanitizeApply ==
  /\ pure.pc = "input"
  /\ pure.f = "sanitize_items"
  /\ pure' = [pure EXCEPT !.pc = "done", !.y = sanitize_items(pure.x)]
  /\ PureUnchanged

\* tools/build_lang_pools.py lines 65-91
CleanApply ==
  /\ pure.pc = "input"
  /\ pure.f = "clean_items"
  /\ pure' = [pure EXCEPT !.pc = "done", !.y = clean_items(pure.x)]
  /\ PureUnchanged

\* lang_pool.py lines 71-81, applied to the bare text and to the embedded one
ExtractApply ==
  /\ pure.pc = "input"
  /\ pure.f = "extract_json_array"
  /\ pure' = [pure EXCEPT !.pc = "done",
                          !.y = [bare |-> extract_json_array(pure.x.bare),
                                 text |-> extract_json_array(pure.x.text)]]
  /\ PureUnchanged

\* lang_pool.py lines 180-235: build_lang from the request to the first
\* generation call (or to the end of the loop), the download answering 200
SizesApply ==
  /\ pure.pc = "input"
  /\ pure.f = "build_lang"
  /\ pure' = [pure EXCEPT
                !.pc = "round",
                !.y = OnDownload(OnRequest(IdleBuild, pure.x.req), 200,
                                 Doc(EN, 1, ToJson(CleanPool(pure.x.n))))]
  /\ PureUnchanged

\* lines 237-279 and 227-235: a round that added no record or as many as it
\* asked for, then the loop test and the next round
RoundApply ==
  /\ pure.pc = "round"
  /\ pure.y.pc = "await_generate"
  /\ pure.y.rounds < MaxPureRounds
  /\ \E k \in {0, pure.y.ask} :
       pure' = [pure EXCEPT
                  !.y = EnterLoop([@ EXCEPT
                                     !.items = CleanPool(Len(pure.y.items) + k),
                                     !.added = k])]
  /\ PureUnchanged

PureNext ==
  \/ SanitizeApply
  \/ CleanApply
  \/ ExtractApply
  \/ SizesApply
  \/ RoundApply

PureSpec == PureInit /\ [][PureNext]_vars

\* the category the coercion rule gives: the enum value itself, else by
\* prefix n*, v*, ad* other than "adj", any other a*; <<>> when none applies
RulePos(pos) ==
  IF pos \in POS_ALLOWED THEN pos
  ELSE IF pos # <<>> /\ pos[1] = "n" THEN NOUN
  ELSE IF pos # <<>> /\ pos[1] = "v" THEN VERB
  ELSE IF Len(pos) >= 2 /\ pos[1] = "a" /\ pos[2] = "d" /\ pos # ADJ THEN ADV
  ELSE IF pos # <<>> /\ pos[1] = "a" THEN ADJ
  ELSE <<>>

\* the records the rule keeps of the candidates of arr, in their order
RECURSIVE RuleKeeps(_)
RuleKeeps(arr) ==
  IF arr = <<>> THEN <<>>
  ELSE LET it == Head(arr)
           f == it.v
           has(k) == it.t = "dict" /\ k \in DOMAIN f
           w == IF has("w") THEN Strip(f.w) ELSE <<>>
           tr == IF has("tr") THEN Strip(f.tr) ELSE <<>>
           pos == RulePos(IF has("pos") THEN Lower(Strip(f.pos)) ELSE <<>>)
           up == IF has("lvl") THEN Upper(Strip(f.lvl)) ELSE <<>>
           lvl == IF up \in {A1, A2, B1, B2, C1} THEN up ELSE B1
       IN  (IF w # <<>> /\ tr # <<>> /\ pos # <<>>
            THEN <<[w |-> w, tr |-> tr, pos |-> pos, lvl |-> lvl]>>
            ELSE <<>>) \o RuleKeeps(Tail(arr))

\* C24: sanitize_items returns exactly the records the coercion rule
\* keeps, in their order: w and tr trimmed and non-empty, pos the enum value
\* or the one its prefix gives, lvl the upper-cased input if it is a level
\* and B1 otherwise; a candidate that is no object, or has an empty w or tr,
\* or a pos the rule gives nothing for, is dropped.
C24_SanitizeItemsFollowsRule ==
  (pure.pc = "done" /\ pure.f = "sanitize_items") => pure.y = RuleKeeps(pure.x)

\* pos " Verbs" is stored as "verb" and the missing lvl as "B1"
C24_Witness ==
  /\ pure.pc = "done"
  /\ pure.f = "sanitize_items"
  /\ pure.x = <<CandidateOf(Some(<<" ", "w", " ">>), Some(<<"t", " ">>),
                            Some(<<" ", "V", "e", "r", "b", "s">>), None)>>
  /\ pure.y = <<[w |-> <<"w">>, tr |-> <<"t">>, pos |-> VERB, lvl |-> B1]>>

\* the same rule for clean_items of tools/build_lang_pools.py, which tests
\* the prefix "a" before "ad"
CleanItemsFollowsRule ==
  (pure.pc = "done" /\ pure.f = "clean_items") => pure.y = RuleKeeps(pure.x)

\* C25: extract_json_array of a valid JSON array text embedded in free-form
\* text (prose and fence markers before and after it) returns the array that
\* extract_json_array returns for the bare text.
C25_EmbeddedEqualsBare ==
  (pure.pc = "done" /\ pure.f = "extract_json_array")
    => (pure.y.bare.ok /\ pure.y.text = pure.y.bare)

\* the same when the text before the array holds no "[" and the text behind
\* it holds no "]"
EmbeddedEqualsBareWithoutBrackets ==
  (/\ pure.pc = "done"
   /\ pure.f = "extract_json_array"
   /\ \E a \in ArrayTexts, p \in TextBefore, q \in TextAfter :
        /\ pure.x.text = p \o a \o q
        /\ pure.x.bare = a
        /\ FirstIndex(p, "lbracket") = -1
        /\ LastIndex(q, "rbracket") = -1)
    => (pure.y.bare.ok /\ pure.y.text = pure.y.bare)

\* C26: the merge of a round keeps the item list as it was and appends
\* behind it only records whose key is non-empty, was not in the key set and
\* is not the key of a record appended before it (the key set grows by the
\* keys of the appended records, one new key for each of them); a reply whose
\* records all have keys of the set leaves the list and the set as they were.
C26_MergeAppendsOnlyNewKeys ==
  [][\A b \in Builds :
       LET s == build[b]
           t == build'[b]
           n == Len(s.items)
       IN  (s.pc = "await_generate" /\ t # s /\ t.error # "generation")
             => /\ Len(t.items) >= n
                /\ SubSeq(t.items, 1, n) = s.items
                /\ t.seen = s.seen
                            \cup {norm(t.items[i].w) : i \in (n + 1)..Len(t.items)}
                /\ Cardinality(t.seen) = Cardinality(s.seen) + Len(t.items) - n
                /\ <<>> \notin t.seen
                /\ t.only_dups => (t.items = s.items /\ t.seen = s.seen)]_vars

\* a reply with a new record, a second record of the same key and rejected
\* candidates was merged: one record was appended to a loaded pool
C26_Witness ==
  \E b \in Builds :
    /\ build[b].pc = "await_upload"
    /\ build[b].ask >= 2
    /\ build[b].added = 1
    /\ build[b].carried # <<>>
    /\ Len(build[b].items) = Len(build[b].carried) + 1
    /\ Cardinality(build[b].seen) = Len(build[b].items)

\* out is v clamped to lo..hi
ClampedTo(v, lo, hi, out) ==
  /\ out \in lo..hi
  /\ v \in lo..hi => out = v
  /\ v < lo => out = lo
  /\ v > hi => out = hi

\* the ask of a round: min(chunk, target - |pool|), between 1 and chunk
AskOfRound(s) ==
  s.pc = "await_generate"
    => /\ s.ask = Min(s.chunk, s.target - Len(s.items))
       /\ 1 <= s.ask
       /\ s.ask <= s.chunk

\* C27 as stated: for any integer request values the build works with
\* target clamped to 50..20000, chunk clamped to 20..200 and max_rounds
\* clamped to 1..200, and each round asks min(chunk, target - |pool|), a
\* number between 1 and chunk.
C27_ClampedTargetAndAsk ==
  (pure.f = "build_lang" /\ pure.pc = "round")
    => /\ ClampedTo(pure.x.req.target, TargetMin, TargetMax, pure.y.target)
       /\ ClampedTo(pure.x.req.chunk, ChunkMin, ChunkMax, pure.y.chunk)
       /\ ClampedTo(pure.x.req.max_rounds, MaxRoundsMin, MaxRoundsMax,
                    pure.y.max_rounds)
       /\ AskOfRound(pure.y)

\* C27, amended: chunk and max_rounds are the clamped request values; target
\* is the clamped request value in every mode but add, and in add mode the
\* size of the loaded pool plus chunk (at most 20000), which can be below
\* 50; each round asks min(chunk, target - |pool|) with that target, a
\* number between 1 and chunk.
C27_EffectiveTargetAndAsk ==
  (pure.f = "build_lang" /\ pure.pc = "round")
    => /\ IF pure.y.mode = ADD
          THEN pure.y.target = Min(pure.x.n + pure.y.chunk, TargetMax)
          ELSE ClampedTo(pure.x.req.target, TargetMin, TargetMax, pure.y.target)
       /\ ClampedTo(pure.x.req.chunk, ChunkMin, ChunkMax, pure.y.chunk)
       /\ ClampedTo(pure.x.req.max_rounds, MaxRoundsMin, MaxRoundsMax,
                    pure.y.max_rounds)
       /\ AskOfRound(pure.y)

\* request values above the three ranges: the second round asks for a whole
\* chunk of 200
C27_Witness ==
  /\ pure.f = "build_lang"
  /\ pure.pc = "round"
  /\ pure.x.req.target = TargetMax + 1
  /\ pure.x.req.chunk = ChunkMax + 1
  /\ pure.x.req.max_rounds = MaxRoundsMax + 1
  /\ pure.y.pc = "await_generate"
  /\ pure.y.rounds = 2
  /\ pure.y.ask = ChunkMax
  /\ pure.y.max_rounds = MaxRoundsMax

\* a round that asks for less than a chunk: one record is missing
C27_AskBelowChunk ==
  /\ pure.f = "build_lang"
  /\ pure.pc = "round"
  /\ pure.y.pc = "await_generate"
  /\ pure.y.ask = 1
  /\ pure.y.chunk = ChunkMin

\* C28: when every awaited call completes, a build_lang call ends (with its
\* response or with an error); it never runs more than max_rounds rounds,
\* rounds without progress included, never makes more than 4 generation
\* calls in a round, and uploads at most once per round and once after the
\* loop.
C28_BuildTerminates ==
  /\ [](\A b \in SoloBuilds :
          /\ build[b].rounds <= build[b].max_rounds
          /\ build[b].attempt <= ParseTries
          /\ build[b].pc = "await_upload"
               => build[b].uploaded_round < build[b].rounds
          /\ build[b].pc = "await_final_upload"
               => build[b].uploaded_round <= build[b].rounds)
  /\ \A b \in SoloBuilds :
       (build[b].pc # "idle") ~> (build[b].pc \in {"done", "failed"})

\* a build ended with its response after using all its rounds, the last of
\* them without progress
C28_Witness ==
  \E b \in SoloBuilds :
    /\ build[b].pc = "done"
    /\ build[b].rounds = build[b].max_rounds
    /\ build[b].max_rounds = NoProgressLimit
    /\ build[b].no_progress > 0
    /\ build[b].uploaded_round > 0

\* the records of a list that have a non-empty w and tr and a key no other
\* record of the list has, as <<key, w, tr>>
PersistedRecords(items) ==
  {<<norm(Strip(Get(items[i], "w", <<>>))), Strip(Get(items[i], "w", <<>>)),
     Strip(Get(items[i], "tr", <<>>))>> :
     i \in {i \in 1..Len(items) :
              /\ items[i].t = "dict"
              /\ Strip(Get(items[i], "w", <<>>)) # <<>>
              /\ Strip(Get(items[i], "tr", <<>>)) # <<>>
              /\ norm(Strip(Get(items[i], "w", <<>>))) # <<>>
              /\ \A j \in 1..Len(items) :
                   (j # i /\ items[j].t = "dict")
                     => norm(Strip(Get(items[j], "w", <<>>)))
                          # norm(Strip(Get(items[i], "w", <<>>)))}}

\* C29: no upload of a build removes a record from the persisted pool: every
\* record with a non-empty w and tr and a unique key that the document of a
\* language holds before an upload is in the document after it, in fill and
\* in add mode, whatever the first download answered.
C29_UploadsKeepPersistedRecords ==
  [][\A l \in LANGS :
       store'[l] # store[l]
         => PersistedRecords(ItemsOf(store[l]))
              \subseteq PersistedRecords(ItemsOf(store'[l]))]_vars

\* the same for the builds whose download answered 200
UploadsKeepLoadedRecords ==
  [][\A b \in SoloBuilds :
       LET l == build[b].lang
       IN  (l \in LANGS /\ store'[l] # store[l]
            /\ (build[b].uploaded_round = 0
                  => build[b].loaded = ItemsOf(store[l])))
             => PersistedRecords(ItemsOf(store[l]))
                  \subseteq PersistedRecords(ItemsOf(store'[l]))]_vars

\* C30: gemini_generate_json completes a call to call_gemini and returns
\* its text, so that with the chat module's call_gemini as the generator a
\* build that starts a round gets the reply of an upstream request: it does
\* not fail in a generation call of its first round before any reply.
C30_GenerationCallIsCompleted ==
  \A b \in SoloBuilds :
    (generator = "call_gemini" /\ build[b].pc = "failed" /\ build[b].rounds = 1)
      => build[b].error # "generation"

====
